---------------------------- MODULE Spec2Model ----------------------------
(***************************************************************************)
(* The trace post-processing of the Chisinau traffic simulation:           *)
(*   make_deckgl.py   one pass over fcd_full.xml, trajectories, filter,    *)
(*                    cap, trips_deckgl.json                               *)
(*   postprocess.py   step 1 edge aggregation pass, step 2 congestion      *)
(*                    table, step 4 trajectory pass, trips_deckgl.json     *)
(*                                                                         *)
(* Numbers.  Attribute texts are sequences of one-character strings.  A    *)
(* parsed decimal is held in tenths (time 25200.5 is 252005).  Input texts *)
(* carry at most one fractional digit.  What postprocess.py computes with  *)
(* floats in steps 1, 2, 3 and 5 is computed in doubles; a value that the  *)
(* script rounds to n places is held as the integer of its n-place decimal *)
(* and is the double of that decimal when it is read again.                *)
(*                                                                         *)
(* The loops of the two scripts read the same file and share no state, so  *)
(* one ReadLine step hands the next line of the file to every loop that is *)
(* still reading; a loop that has left the file (break, exception) ignores *)
(* it.                                                                     *)
(***************************************************************************)
EXTENDS Integers, Sequences, FiniteSets, Bags, TLC

(***************************************************************************)
(* Program constants.                                                      *)
(***************************************************************************)
MORNING_START == 7 * 3600
MORNING_END   == 9 * 3600
EVENING_START == 17 * 3600
EVENING_END   == 20 * 3600
BUFFER        == 60
PP_BUFFER     == 60
PP_BREAK_TOL  == 120
SAMPLE_EVERY  == 30
MIN_WAYPOINTS == 5
PP_MIN_WAYPOINTS == 5

(***************************************************************************)
(* Bounds of the model.  MAX_VEHICLES is 8000 in make_deckgl.py; the model *)
(* runs the same cap with a small value.                                   *)
(***************************************************************************)
MAX_VEHICLES   == 2
MaxWaypoints   == 6
MaxPerVehicle  == 6
MaxSamples     == 6
MaxSteps       == 3
MaxSr          == 10100
MaxSimTime     == 66
MaxQueue       == 3
MaxTrips       == 2
MaxRows        == 2
MaxN           == 1
MaxGenerated   == 1
MaxLaneLen     == 5

(***************************************************************************)
(* Text and number conversion.                                             *)
(***************************************************************************)
Digits == {"0", "1", "2", "3", "4", "5", "6", "7", "8", "9"}

DigitVal(c) ==
    CASE c = "0" -> 0 [] c = "1" -> 1 [] c = "2" -> 2 [] c = "3" -> 3
      [] c = "4" -> 4 [] c = "5" -> 5 [] c = "6" -> 6 [] c = "7" -> 7
      [] c = "8" -> 8 [] c = "9" -> 9

\* name="([\d.]+)" : the text between the quotes is one or more digits or dots
ReNum(s) == Len(s) > 0 /\ \A i \in 1..Len(s) : s[i] \in Digits \cup {"."}

\* \bid="([^"]+)" and lane="([^"]+)" : any non-empty text
ReAny(s) == Len(s) > 0

DotCount(s) == Cardinality({i \in 1..Len(s) : s[i] = "."})

\* float(text) on a text ReNum accepts: ValueError unless there is at most
\* one dot and at least one digit
FloatOK(s) == DotCount(s) <= 1 /\ \E i \in 1..Len(s) : s[i] \in Digits

RECURSIVE IntVal(_)
IntVal(s) ==
    IF s = << >> THEN 0
    ELSE 10 * IntVal(SubSeq(s, 1, Len(s) - 1)) + DigitVal(s[Len(s)])

DotPos(s) ==
    IF \E i \in 1..Len(s) : s[i] = "."
    THEN CHOOSE i \in 1..Len(s) : s[i] = "."
    ELSE Len(s) + 1

\* float(text), in tenths
Float(s) ==
    LET p  == DotPos(s)
        ip == SubSeq(s, 1, p - 1)
        fp == SubSeq(s, p + 1, Len(s))
    IN  10 * IntVal(ip) + (IF fp = << >> THEN 0 ELSE DigitVal(fp[1]))

\* int(x) of a number held in tenths: truncation toward zero
IntOf(t) == IF t >= 0 THEN t \div 10 ELSE -((-t) \div 10)

\* float(speed) * 3.6 as a decimal, in hundredths of km/h
Kmh(s) == Float(s) * 36

\* round(v, 1) of a value in hundredths, in tenths.  Tenths of m/s times 36
\* is even, so no value lies on a tie.
Round1(h) == (h + 5) \div 10

\* round(v, 5) and round(v, 6) of a value with one fractional digit: the value
RoundTo(v, places) == IF places >= 1 THEN v ELSE 10 * Round1(10 * v)

(***************************************************************************)
(* Binary floating point.  Python's float is the IEEE 754 double: every    *)
(* +, -, *, / gives the double nearest the exact result, an exact tie to   *)
(* the even significand.  TLC's integers have 32 bits, so a significand is *)
(* a big natural: its digits in base Limb, lowest first, the highest not   *)
(* zero, zero the empty sequence.  A double is [neg, man, exp] and stands  *)
(* for (-1)^neg * man * 2^exp with man odd and under 2^53, or man zero and *)
(* exp zero.  Infinities, NaN, -0.0 and subnormals do not occur in the     *)
(* ranges of the scripts.  The operators on big naturals avoid deep        *)
(* nesting: carries are found by looking back, not by rippling.  An        *)
(* intermediate value is handed to an operator as an argument, so that     *)
(* every operator names each of its operands once.                         *)
(***************************************************************************)
Limb     == 32768
LimbBits == 15
Mantissa == 53

\* 2^n for n in 0..15
Pow2(n) == <<1, 2, 4, 8, 16, 32, 64, 128, 256, 512, 1024, 2048, 4096, 8192,
             16384, 32768>>[n + 1]

\* 10^n for n in 0..9
Pow10(n) == <<1, 10, 100, 1000, 10000, 100000, 1000000, 10000000, 100000000,
              1000000000>>[n + 1]

\* a without its high zero limbs
BigTrim(a) ==
    SubSeq(a, 1, Cardinality({i \in 1..Len(a) : \E j \in i..Len(a) : a[j] # 0}))

\* the big natural of an integer 0 <= n < 2^31, and back
BigOf(n) == BigTrim(<<n % Limb, (n \div Limb) % Limb, n \div (Limb * Limb)>>)

BigLimb(a, i) == IF 1 <= i /\ i <= Len(a) THEN a[i] ELSE 0

BigToInt(a) == BigLimb(a, 1) + Limb * BigLimb(a, 2) + Limb * Limb * BigLimb(a, 3)

\* k, or -k when neg
Signed(neg, k) == IF neg THEN -k ELSE k

\* -1, 0 or 1 as a < b, a = b or a > b
BigCmpAt(a, b, i) == IF a[i] < b[i] THEN -1 ELSE 1
BigCmp(a, b) ==
    IF Len(a) # Len(b) THEN (IF Len(a) < Len(b) THEN -1 ELSE 1)
    ELSE IF a = b THEN 0
    ELSE BigCmpAt(a, b, CHOOSE k \in 1..Len(a) :
                           a[k] # b[k] /\ \A j \in (k + 1)..Len(a) : a[j] = b[j])

\* the big natural of the sums s[i] < 2 * Limb of two limbs: position i
\* receives a carry when a lower position overflows and every position
\* between is full
BigCarried(s) ==
    BigTrim([i \in 1..Len(s) |->
               (s[i] + (IF \E j \in 1..(i - 1) :
                              s[j] >= Limb /\ \A k \in (j + 1)..(i - 1) : s[k] = Limb - 1
                        THEN 1 ELSE 0)) % Limb])

\* a + b
BigAdd(a, b) ==
    BigCarried([i \in 1..(1 + (IF Len(a) >= Len(b) THEN Len(a) ELSE Len(b))) |->
                   BigLimb(a, i) + BigLimb(b, i)])

\* the big natural of the differences d[i] > -Limb of two limbs: position i
\* lends when a lower position falls short and every position between is
\* level
BigLent(d) ==
    BigTrim([i \in 1..Len(d) |->
               (d[i] - (IF \E j \in 1..(i - 1) :
                              d[j] < 0 /\ \A k \in (j + 1)..(i - 1) : d[k] = 0
                        THEN 1 ELSE 0) + Limb) % Limb])

\* a - b for a >= b
BigSub(a, b) == BigLent([i \in 1..Len(a) |-> a[i] - BigLimb(b, i)])

\* a * Limb^n
BigShiftLimbs(a, n) == IF a = << >> THEN << >> ELSE [i \in 1..n |-> 0] \o a

\* the big natural of coefficients c[i] < Limb^2 of Limb^(i-1)
BigOfCoefficients(c) ==
    BigAdd(BigTrim([i \in 1..Len(c) |-> c[i] % Limb]),
           BigShiftLimbs(BigTrim([i \in 1..Len(c) |-> c[i] \div Limb]), 1))

\* a * k for 0 <= k < Limb
BigMulSmall(a, k) == BigOfCoefficients([i \in 1..Len(a) |-> a[i] * k])

\* what the products of the limbs of a with the limbs of b add to the
\* coefficient of Limb^(k-1): the low halves of a[i] * b[k+1-i] and the high
\* halves of a[i] * b[k-i]
BigColumn(a, b, k) ==
    LET column[i \in 0..Len(a)] ==
            IF i = 0 THEN 0
            ELSE column[i - 1]
                 + ((a[i] * BigLimb(b, k + 1 - i)) % Limb)
                 + (IF k > i THEN (a[i] * BigLimb(b, k - i)) \div Limb ELSE 0)
    IN  column[Len(a)]

BigMul(a, b) ==
    BigOfCoefficients([k \in 1..(Len(a) + Len(b)) |-> BigColumn(a, b, k)])

\* a * 2^n
BigShl(a, n) ==
    BigShiftLimbs(BigMulSmall(a, Pow2(n % LimbBits)), n \div LimbBits)

\* floor(a / 2^n) for n = LimbBits * d + r
BigShrBy(a, d, r) ==
    BigTrim([i \in 1..(Len(a) - d) |->
                (a[d + i] \div Pow2(r))
                + ((BigLimb(a, d + i + 1) % Pow2(r)) * Pow2(LimbBits - r))])
BigShr(a, n) == BigShrBy(a, n \div LimbBits, n % LimbBits)

\* a mod 2^n
BigLow(a, n) ==
    IF n \div LimbBits >= Len(a) THEN a
    ELSE BigTrim(SubSeq(a, 1, n \div LimbBits)
                 \o <<a[n \div LimbBits + 1] % Pow2(n % LimbBits)>>)

\* the number of binary digits of a limb, and of a
BitsOf(n) == Cardinality({k \in 0..(LimbBits - 1) : Pow2(k) <= n})
BigBits(a) == IF a = << >> THEN 0 ELSE LimbBits * (Len(a) - 1) + BitsOf(a[Len(a)])

BigOdd(a) == a # << >> /\ a[1] % 2 = 1

\* the number of trailing zero bits of a limb n > 0, and of a > 0 whose z
\* lowest limbs are zero
TrailingZeros(n) == Cardinality({k \in 1..LimbBits : n % Pow2(k) = 0})
BigTrailingZerosAt(a, z) == LimbBits * z + TrailingZeros(a[z + 1])
BigTrailingZeros(a) ==
    BigTrailingZerosAt(a, Cardinality({i \in 1..Len(a) : \A j \in 1..i : a[j] = 0}))

\* the greatest d with d * b <= r, for r < b * Limb and the highest limb of b
\* at least Limb / 2: the quotient est of the two highest limbs of r by the
\* highest of b, Limb - 1 at most, is at most 2 above it
BigDigitFrom(r, b, est) ==
    IF BigCmp(BigMulSmall(b, est), r) <= 0 THEN est
    ELSE IF BigCmp(BigMulSmall(b, est - 1), r) <= 0 THEN est - 1
    ELSE est - 2
BigDigitCapped(r, b, est) ==
    BigDigitFrom(r, b, IF est >= Limb THEN Limb - 1 ELSE est)
BigDigit(r, b) ==
    BigDigitCapped(r, b, (BigLimb(r, Len(b) + 1) * Limb + BigLimb(r, Len(b)))
                             \div b[Len(b)])

\* one step of the long division: q is the quotient and r the remainder of
\* the higher limbs with the next limb below it, d the next digit
BigDivPut(q, r, b, d) == [q |-> <<d>> \o q, r |-> BigSub(r, BigMulSmall(b, d))]
BigDivNext(q, r, b) == BigDivPut(q, r, b, BigDigit(r, b))
BigDivStep(h, x, b) ==
    IF h.r = << >> /\ x = 0 THEN [q |-> <<0>> \o h.q, r |-> << >>]
    ELSE BigDivNext(h.q, <<x>> \o h.r, b)

\* long division of a by b from limb top down to limb 1; the limbs above top
\* are fewer than those of b and make the first remainder
BigDivAt(a, b, top) ==
    LET division[i \in 1..(top + 1)] ==
            IF i > top THEN [q |-> << >>, r |-> SubSeq(a, top + 1, Len(a))]
            ELSE BigDivStep(division[i + 1], a[i], b)
    IN  division[1]

\* [q, r] with a = q * b + r and r < b, for b > 0: a and b are shifted by s
\* so that the highest limb of b is at least Limb / 2
BigDivOut(h, s) == [q |-> BigTrim(h.q), r |-> BigShr(h.r, s)]
BigDivLong(a, an, bn, s) ==
    IF Len(an) < Len(bn) THEN [q |-> << >>, r |-> a]
    ELSE BigDivOut(BigDivAt(an, bn, Len(an) - Len(bn) + 1), s)
BigDivShifted(a, b, s) == BigDivLong(a, BigShl(a, s), BigShl(b, s), s)
BigDivMod(a, b) == BigDivShifted(a, b, LimbBits - BitsOf(b[Len(b)]))

FZero == [neg |-> FALSE, man |-> << >>, exp |-> 0]

\* the double of the exact value (-1)^neg * n * 2^e, n of at most 53 bits
\* apart from its z trailing zeros
FExactAt(neg, n, e, z) == [neg |-> neg, man |-> BigShr(n, z), exp |-> e + z]
FExact(neg, n, e) ==
    IF n = << >> THEN FZero ELSE FExactAt(neg, n, e, BigTrailingZeros(n))

\* the double nearest (-1)^neg * (n + f) * 2^e, where 0 <= f < 1 and sticky
\* says f > 0; with sticky, n has more than 54 bits.  s is the number of bits
\* n has beyond 53, q the 53 bits kept, c the dropped bits against a half
FRoundUp(neg, q, c, e, sticky) ==
    FExact(neg,
           IF c > 0 \/ (c = 0 /\ (sticky \/ BigOdd(q))) THEN BigAdd(q, <<1>>) ELSE q,
           e)
FRoundAt(neg, n, e, sticky, s) ==
    IF s <= 0 THEN FExact(neg, n, e)
    ELSE FRoundUp(neg, BigShr(n, s), BigCmp(BigLow(n, s), BigShl(<<1>>, s - 1)),
                  e + s, sticky)
FRound(neg, n, e, sticky) == FRoundAt(neg, n, e, sticky, BigBits(n) - Mantissa)

\* the exact value x + y as [neg, n, e]: (-1)^neg * n * 2^e, with a and b the
\* significands over the lower exponent e
SumOf(xneg, yneg, a, b, e) ==
    IF xneg = yneg THEN [neg |-> xneg, n |-> BigAdd(a, b), e |-> e]
    ELSE IF BigCmp(a, b) >= 0 THEN [neg |-> xneg, n |-> BigSub(a, b), e |-> e]
    ELSE [neg |-> yneg, n |-> BigSub(b, a), e |-> e]
SumAligned(x, y, e) ==
    SumOf(x.neg, y.neg,
          BigShl(x.man, IF x.man = << >> THEN 0 ELSE x.exp - e),
          BigShl(y.man, IF y.man = << >> THEN 0 ELSE y.exp - e), e)
SumExact(x, y) ==
    SumAligned(x, y, IF x.man = << >> THEN y.exp
                     ELSE IF y.man = << >> THEN x.exp
                     ELSE IF x.exp < y.exp THEN x.exp ELSE y.exp)

FNeg(x) == IF x.man = << >> THEN x ELSE [x EXCEPT !.neg = ~x.neg]
FAbs(x) == [x EXCEPT !.neg = FALSE]

\* x + y, x - y, x * y, x / y
FRoundSum(s) == FRound(s.neg, s.n, s.e, FALSE)
FAdd(x, y) == FRoundSum(SumExact(x, y))
FSub(x, y) == FAdd(x, FNeg(y))
FMul(x, y) == FRound(x.neg # y.neg, BigMul(x.man, y.man), x.exp + y.exp, FALSE)

\* the double nearest (-1)^neg * (a / b) * 2^e for big naturals a and b > 0:
\* the quotient is taken to 56 bits or more, a shifted by sh for it
FQuotientOf(neg, d, e) == FRound(neg, d.q, e, d.r # << >>)
FQuotientAt(neg, a, b, e, sh) == FQuotientOf(neg, BigDivMod(BigShl(a, sh), b), e - sh)
FQuotientBy(neg, a, b, e, k) == FQuotientAt(neg, a, b, e, IF k > 0 THEN k ELSE 0)
FQuotient(neg, a, b, e) ==
    IF a = << >> THEN FZero
    ELSE FQuotientBy(neg, a, b, e, Mantissa + 3 + BigBits(b) - BigBits(a))

FDiv(x, y) == FQuotient(x.neg # y.neg, x.man, y.man, x.exp - y.exp)

\* float(n) of an integer, and float of the decimal text of n / 10^places
FInt(n) == FRound(n < 0, BigOf(IF n >= 0 THEN n ELSE -n), 0, FALSE)
FDec(n, places) ==
    FQuotient(n < 0, BigOf(IF n >= 0 THEN n ELSE -n), BigOf(Pow10(places)), 0)

\* x < y, x <= y, max(x, y)
IsNegative(s)   == s.n # << >> /\ s.neg
IsNotPositive(s) == s.n = << >> \/ s.neg
FLt(x, y) == IsNegative(SumExact(x, FNeg(y)))
FLe(x, y) == IsNotPositive(SumExact(x, FNeg(y)))
FMax(x, y) == IF FLt(x, y) THEN y ELSE x

\* round(x, places) * 10^places as an integer: the decimal of that many
\* places nearest the exact value n / 2^s of x * 10^places, an exact tie to
\* the even digit; q is its integer part, c the rest against a half
PyRoundUp(neg, q, c) ==
    Signed(neg, BigToInt(IF c > 0 \/ (c = 0 /\ BigOdd(q)) THEN BigAdd(q, <<1>>) ELSE q))
PyRoundAt(neg, n, s) ==
    IF s <= 0 THEN Signed(neg, BigToInt(BigShl(n, -s)))
    ELSE PyRoundUp(neg, BigShr(n, s), BigCmp(BigLow(n, s), BigShl(<<1>>, s - 1)))
PyRound(x, places) == PyRoundAt(x.neg, BigMul(x.man, BigOf(Pow10(places))), -x.exp)

\* int(x): truncation toward zero
FTrunc(x) ==
    Signed(x.neg, BigToInt(IF x.exp >= 0 THEN BigShl(x.man, x.exp)
                           ELSE BigShr(x.man, -x.exp)))

\* sum(xs): 0 + xs[0] + ... + xs[n-1], added from the left
FSum(xs) ==
    LET total[n \in 0..Len(xs)] ==
            IF n = 0 THEN FZero ELSE FAdd(total[n - 1], xs[n])
    IN  total[Len(xs)]

\* the literal 3.6
Lit3_6 == FDec(36, 1)

\* float(text) * 3.6 for a text worth t tenths
KmhOfTenths(t) == FMul(FDec(t, 1), Lit3_6)

\* speed = float(sm.group(1)) * 3.6

(***************************************************************************)
(* Python dicts, in insertion order: a sequence of entries [k, v] with     *)
(* distinct keys.                                                          *)
(***************************************************************************)
Has(d, k)  == \E i \in 1..Len(d) : d[i].k = k
Idx(d, k)  == CHOOSE i \in 1..Len(d) : d[i].k = k
Get(d, k)  == d[Idx(d, k)].v
Put(d, k, v) ==
    IF Has(d, k) THEN [d EXCEPT ![Idx(d, k)].v = v]
    ELSE Append(d, [k |-> k, v |-> v])
Keys(d)    == {d[i].k : i \in 1..Len(d)}

\* defaultdict: a missing key reads as the default
GetDefault(d, k, default) == IF Has(d, k) THEN Get(d, k) ELSE default

RECURSIVE SumSeq(_)
SumSeq(s) == IF s = << >> THEN 0 ELSE s[1] + SumSeq(Tail(s))

RECURSIVE SelectSeqIdx(_, _)
\* the subsequence of s at the (ascending) indices in the set I
SelectSeqIdx(s, I) ==
    IF I = {} THEN << >>
    ELSE LET m == CHOOSE i \in I : \A j \in I : i >= j
         IN  Append(SelectSeqIdx(s, I \ {m}), s[m])

(***************************************************************************)
(* Lines of the trace file.  tag is what the substring tests "<timestep"   *)
(* and "<vehicle" see; an attribute that is missing is the empty text,     *)
(* which no extraction pattern matches.                                    *)
(***************************************************************************)
Absent == << >>

TimestepLine(t) ==
    [tag |-> "timestep", time |-> t, id |-> Absent, lane |-> Absent,
     x |-> Absent, y |-> Absent, speed |-> Absent]
VehicleLine(id, lane, x, y, speed) ==
    [tag |-> "vehicle", time |-> Absent, id |-> id, lane |-> lane,
     x |-> x, y |-> y, speed |-> speed]
OtherLine ==
    [tag |-> "other", time |-> Absent, id |-> Absent, lane |-> Absent,
     x |-> Absent, y |-> Absent, speed |-> Absent]

T_25139   == <<"2", "5", "1", "3", "9">>
T_25140   == <<"2", "5", "1", "4", "0">>
T_25200   == <<"2", "5", "2", "0", "0">>
T_25200_5 == <<"2", "5", "2", "0", "0", ".", "5">>
T_25201   == <<"2", "5", "2", "0", "1">>
T_32460   == <<"3", "2", "4", "6", "0">>
T_32460_5 == <<"3", "2", "4", "6", "0", ".", "5">>
T_32520   == <<"3", "2", "5", "2", "0">>
T_32521   == <<"3", "2", "5", "2", "1">>
T_61200   == <<"6", "1", "2", "0", "0">>
T_1_2_3   == <<"1", ".", "2", ".", "3">>
T_Dot     == <<".">>
T_Minus5  == <<"-", "5">>

V1 == <<"v", "1">>
V2 == <<"v", "2">>
V3 == <<"v", "3">>
L_12_0_0 == <<"1", "2", "#", "0", "_", "0">>
L_12_0_1 == <<"1", "2", "#", "0", "_", "1">>
L_a_b_0  == <<"a", "_", "b", "_", "0">>
N_10  == <<"1", "0">>
N_5_5 == <<"5", ".", "5">>
N_3   == <<"3">>

\* a well-formed sample of each vehicle
GoodLine(vid) ==
    CASE vid = V1 -> VehicleLine(V1, L_12_0_0, N_3, N_5_5, N_10)
      [] vid = V2 -> VehicleLine(V2, L_12_0_1, N_5_5, N_3, N_5_5)
      [] vid = V3 -> VehicleLine(V3, L_a_b_0, N_10, N_10, N_3)

\* samples with one attribute missing or malformed
BadLines ==
    { VehicleLine(Absent, L_12_0_0, N_3, N_5_5, N_10),
      VehicleLine(V1, Absent, N_3, N_5_5, N_10),
      VehicleLine(V1, L_12_0_0, T_Minus5, N_5_5, N_10),
      VehicleLine(V1, L_12_0_0, N_3, T_Dot, N_10),
      VehicleLine(V1, L_12_0_0, N_3, N_5_5, Absent),
      VehicleLine(Absent, L_12_0_0, Absent, Absent, T_1_2_3) }

\* boundary times around every window edge, one vehicle
TimingLines ==
    { TimestepLine(t) : t \in { T_25139, T_25140, T_25200, T_25200_5, T_25201,
                                T_32460, T_32460_5, T_32521, T_61200 } }
    \cup { GoodLine(V1), OtherLine }

\* missing and malformed attributes inside the sampled window, one vehicle
MalformedLines ==
    { TimestepLine(t) : t \in { T_25200, T_1_2_3, T_Minus5, Absent } }
    \cup { GoodLine(V1), OtherLine } \cup BadLines

\* one sampled timestep, three vehicles
VolumeLines ==
    { TimestepLine(T_25200), GoodLine(V1), GoodLine(V2), GoodLine(V3) }

\* two boundary times, the first before the window, three vehicles
TieLines ==
    { TimestepLine(T_25139), TimestepLine(T_25200),
      GoodLine(V1), GoodLine(V2), GoodLine(V3) }

Classes == {"timing", "malformed", "volume"}

Lines(class) ==
    CASE class = "timing"    -> TimingLines
      [] class = "malformed" -> MalformedLines
      [] class = "volume"    -> VolumeLines
      [] class = "ties"      -> TieLines

(***************************************************************************)
(* State.                                                                  *)
(***************************************************************************)
VARIABLES
    trace_class,        \* which family of traces the file is drawn from
    eof,                \* the file has no further line
    nsteps,             \* history: the number of boundary times read
    last_time,          \* history: the last boundary time read, -10 before any
    monotone,           \* history: boundary times so far are numbers, non-decreasing
    folded,             \* history: the bag of samples folded by step 1
    seen,               \* history: the vehicle ids of the file, in the order
                        \* of their first line
    \* make_deckgl.py
    mk_pc, cur_time, in_window, vehicles, deckgl,
    \* make_deckgl.py's loop with its break removed
    full,
    \* postprocess.py
    pp_pc, current_time, in_peak, sample_this,
    edge_speed_sum, edge_speed_count, rows, features, report,
    pp4_pc, pp_cur_time, pp_vehicles, pp_deckgl,
    \* postprocess.py's step 4 loop with its break removed
    pp_full

pipeline_vars ==
        <<trace_class, eof, nsteps, last_time, monotone, folded, seen,
          mk_pc, cur_time, in_window, vehicles, deckgl, full,
          pp_pc, current_time, in_peak, sample_this,
          edge_speed_sum, edge_speed_count, rows, features, report,
          pp4_pc, pp_cur_time, pp_vehicles, pp_deckgl, pp_full>>

VARIABLES
    \* sr_to_color called on its own
    cls_sr,             \* the argument sr, in units of 1e-4
    cls_color           \* the value returned, << >> before the call

classifier_vars == <<cls_sr, cls_color>>

VARIABLES
    \* run_sumo.py run_traci and its AdaptivePressureController
    intersection_ids,   \* the ids of the pilot intersections, in order
    min_green,          \* self.min_green
    max_green,          \* self.max_green
    pressure_threshold, \* self.pressure_threshold
    initialized,        \* self._initialized
    phase_start,        \* self._phase_start: id -> time
    current_phase,      \* self._current_phase: id -> phase index
    phase_lanes,        \* self._phase_lanes: id -> (phase index -> lanes)
    step                \* run_traci's step, the argument of the next call

controller_vars == <<intersection_ids, min_green, max_green, pressure_threshold,
                     initialized, phase_start, current_phase, phase_lanes, step>>

VARIABLES
    \* scale_trips.py
    st_pc,              \* "load", "resample", "done" or the exception raised
    original_trips,     \* the (from, to) pairs of trips.trips.xml, in order
    pool,               \* (origin district, destination district) -> pairs
    unclassified,
    origin_pool,        \* origin district -> pairs
    dest_pool,          \* destination district -> pairs
    global_pool,
    nrows,              \* rows of the OD matrix handled
    new_trips,
    trip_idx,
    fallback_used

scaler_vars == <<st_pc, original_trips, pool, unclassified, origin_pool, dest_pool,
                 global_pool, nrows, new_trips, trip_idx, fallback_used>>

VARIABLES
    \* the key derivation of step 1 on its own
    key_lane,           \* lm.group(1), the lane attribute
    key_edge_id,        \* edge_id
    key_done            \* line 67 has run

keyer_vars == <<key_lane, key_edge_id, key_done>>

\* what the two scripts never touch
aux_vars == <<classifier_vars, controller_vars, scaler_vars, keyer_vars>>

vars == <<pipeline_vars, aux_vars>>

(***************************************************************************)
(* make_deckgl.py, the scan loop.                                          *)
(***************************************************************************)
\* mutant: the lower end of the window is not tested
InWindow_NoLower(t) == t <= 10 * (MORNING_END + BUFFER)

\* MORNING_START - BUFFER <= cur_time <= MORNING_END + BUFFER
InWindow(t) ==
    10 * (MORNING_START - BUFFER) <= t /\ t <= 10 * (MORNING_END + BUFFER)

\* mutant: the break ignores the buffer
BreakNow_NoBuffer(t) == t > 10 * MORNING_END

\* if cur_time > MORNING_END + BUFFER: break
BreakNow(t) == t > 10 * (MORNING_END + BUFFER)

\* [int(cur_time), round(x, places), round(y, places), round(speed * 3.6, 1)]
Waypoint(t, line, places) ==
    << IntOf(t), RoundTo(Float(line.x), places), RoundTo(Float(line.y), places),
       Round1(Kmh(line.speed)) >>

\* vehicles[vid].append(wp)
AppendWaypoint(d, vid, wp) == Put(d, vid, Append(Get(d, vid), wp))

\* if vid not in vehicles: vehicles[vid] = []
EnsureKey(d, vid) == IF Has(d, vid) THEN d ELSE Append(d, [k |-> vid, v |-> << >>])

\* the four patterns all match
SampleMatches(line) ==
    ReAny(line.id) /\ ReNum(line.x) /\ ReNum(line.y) /\ ReNum(line.speed)

\* float() accepts the three numbers
SampleParses(line) ==
    FloatOK(line.x) /\ FloatOK(line.y) /\ FloatOK(line.speed)

\* One pass of the loop body over one line.  st = [pc, cur_time, in_window,
\* vehicles]; early says whether the break of line 52 is present.
MkBody(st, line, early) ==
    IF st.pc # "scan" THEN st
    ELSE IF line.tag = "timestep" THEN
        IF ~ReNum(line.time) THEN st
        ELSE IF ~FloatOK(line.time) THEN [st EXCEPT !.pc = "ValueError"]
        ELSE LET t == Float(line.time)
             IN  [st EXCEPT !.cur_time = t, !.in_window = InWindow(t),
                            !.pc = IF early /\ BreakNow(t) THEN "finalize"
                                   ELSE "scan"]
    ELSE IF st.in_window /\ line.tag = "vehicle" THEN
        IF ~SampleMatches(line) THEN st
        ELSE LET keyed == EnsureKey(st.vehicles, line.id)
             IN  IF SampleParses(line)
                 THEN [st EXCEPT !.vehicles =
                          AppendWaypoint(keyed, line.id,
                                         Waypoint(st.cur_time, line, 5))]
                 ELSE [st EXCEPT !.vehicles = keyed, !.pc = "ValueError"]
    ELSE st

(***************************************************************************)
(* postprocess.py, step 4: the trajectory loop.                            *)
(***************************************************************************)
\* MORNING_START-60 <= cur_time <= MORNING_END+60
PpInWindow(t) ==
    10 * (MORNING_START - PP_BUFFER) <= t /\ t <= 10 * (MORNING_END + PP_BUFFER)

\* if cur_time > MORNING_END + 120: break
PpBreakNow(t) == t > 10 * (MORNING_END + PP_BREAK_TOL)

\* st = [pc, cur_time, vehicles]
Pp4Body(st, line, early) ==
    IF st.pc # "scan" THEN st
    ELSE IF line.tag = "timestep" THEN
        IF ~ReNum(line.time) THEN st
        ELSE IF ~FloatOK(line.time) THEN [st EXCEPT !.pc = "ValueError"]
        ELSE LET t == Float(line.time)
             IN  [st EXCEPT !.cur_time = t,
                            !.pc = IF early /\ PpBreakNow(t) THEN "break"
                                   ELSE "scan"]
    ELSE IF PpInWindow(st.cur_time) /\ line.tag = "vehicle" THEN
        IF ~SampleMatches(line) THEN st
        ELSE LET keyed == EnsureKey(st.vehicles, line.id)
             IN  IF SampleParses(line)
                 THEN [st EXCEPT !.vehicles =
                          AppendWaypoint(keyed, line.id,
                                         Waypoint(st.cur_time, line, 6))]
                 ELSE [st EXCEPT !.vehicles = keyed, !.pc = "ValueError"]
    ELSE st

(***************************************************************************)
(* postprocess.py, step 1: the edge aggregation loop.                      *)
(***************************************************************************)
\* MORNING_START <= t <= MORNING_END or EVENING_START <= t <= EVENING_END
InPeak(t) ==
    \/ 10 * MORNING_START <= t /\ t <= 10 * MORNING_END
    \/ 10 * EVENING_START <= t /\ t <= 10 * EVENING_END

\* in_peak and (int(current_time) % SAMPLE_EVERY == 0)
SampleThis(t) == InPeak(t) /\ IntOf(t) % SAMPLE_EVERY = 0

\* mutant: the text is cut at its first underscore
EdgeId_FirstUnderscore(lane) ==
    IF \E i \in 1..Len(lane) : lane[i] = "_"
    THEN LET p == CHOOSE i \in 1..Len(lane) :
                     /\ lane[i] = "_"
                     /\ \A j \in 1..(i - 1) : lane[j] # "_"
         IN  SubSeq(lane, 1, p - 1)
    ELSE lane

\* lane.rsplit('_', 1)[0]: the text before the last underscore, the whole
\* text when it has none
EdgeId(lane) ==
    IF \E i \in 1..Len(lane) : lane[i] = "_"
    THEN LET p == CHOOSE i \in 1..Len(lane) :
                     /\ lane[i] = "_"
                     /\ \A j \in (i + 1)..Len(lane) : lane[j] # "_"
         IN  SubSeq(lane, 1, p - 1)
    ELSE lane

\* a value is read from a table when the table holds its key and computed
\* otherwise: the values computed on the traces below are few, and each is
\* then evaluated once
Lookup(table, key, computed) ==
    IF key \in DOMAIN table THEN table[key] ELSE computed

\* the samples the lines of the traces bring to the loop: segment and speed
\* in tenths of m/s
TraceSamples ==
    {[edge |-> EdgeId(l.lane), speed |-> Float(l.speed)] :
        l \in {x \in TimingLines \cup MalformedLines \cup VolumeLines \cup TieLines :
                  /\ x.tag = "vehicle"
                  /\ ReAny(x.lane) /\ ReNum(x.speed) /\ FloatOK(x.speed)}}
KmhKnown == [t \in {x.speed : x \in TraceSamples} |-> KmhOfTenths(t)]

\* speed = float(m.group(1)) * 3.6
SpeedKmh(s) == Lookup(KmhKnown, Float(s), KmhOfTenths(Float(s)))

\* the most samples the traces fold on one segment: every vehicle at every
\* sampled step
MaxFolds == 3 * MaxPerVehicle

\* the speeds, in tenths of m/s, the traces sample on a segment
SpeedsOn(edge) == {x.speed : x \in {y \in TraceSamples : y.edge = edge}}

\* the values of edge_speed_sum[edge] and edge_speed_count[edge] after up to
\* n samples of the traces
KnownSums(edge, n) ==
    LET known[m \in 0..n] ==
            IF m = 0 THEN {[sum |-> FZero, count |-> 0]}
            ELSE UNION {{t} \cup {[sum   |-> FAdd(t.sum, KmhKnown[v]),
                                   count |-> t.count + 1] : v \in SpeedsOn(edge)} :
                           t \in known[m - 1]}
    IN  known[n]
SumKnown ==
    [k \in UNION {{<<t.sum, KmhKnown[v]>> :
                      t \in KnownSums(e, MaxFolds - 1), v \in SpeedsOn(e)} :
                     e \in {x.edge : x \in TraceSamples}} |->
        FAdd(k[1], k[2])]

\* total + speed
Plus(total, speed) == Lookup(SumKnown, <<total, speed>>, FAdd(total, speed))

\* mutant: the speed is assigned, not added
FoldSum_Assign(d, edge_id, speed) == Put(d, edge_id, speed)

\* edge_speed_sum[edge_id] += speed on a defaultdict(float)
FoldSum(d, edge_id, speed) ==
    Put(d, edge_id, Plus(GetDefault(d, edge_id, FZero), speed))

\* mutant: the count is set to one, not incremented
FoldCount_Set(d, edge_id) == Put(d, edge_id, 1)

\* edge_speed_count[edge_id] += 1
FoldCount(d, edge_id) == Put(d, edge_id, GetDefault(d, edge_id, 0) + 1)

\* st = [pc, current_time, in_peak, sample_this, sum, count]
EdgeBody(st, line) ==
    IF st.pc # "scan" THEN st
    ELSE IF line.tag = "timestep" THEN
        IF ~ReNum(line.time) THEN st
        ELSE IF ~FloatOK(line.time) THEN [st EXCEPT !.pc = "ValueError"]
        ELSE LET t == Float(line.time)
             IN  [st EXCEPT !.current_time = t, !.in_peak = InPeak(t),
                            !.sample_this = SampleThis(t)]
    ELSE IF st.sample_this /\ line.tag = "vehicle" THEN
        IF ~(ReAny(line.lane) /\ ReNum(line.speed)) THEN st
        ELSE IF ~FloatOK(line.speed) THEN [st EXCEPT !.pc = "ValueError"]
        ELSE LET edge_id == EdgeId(line.lane)
                 speed   == SpeedKmh(line.speed)
             IN  [st EXCEPT !.sum   = FoldSum(st.sum, edge_id, speed),
                            !.count = FoldCount(st.count, edge_id)]
    ELSE st

(***************************************************************************)
(* make_deckgl.py, after the loop: filter, cap, write.                     *)
(***************************************************************************)
\* mutant: the filter is off by one
Valid_OffByOne(d) == SelectSeq(d, LAMBDA e : Len(e.v) >= MIN_WAYPOINTS - 1)

\* {vid: wps for vid, wps in vehicles.items() if len(wps) >= MIN_WAYPOINTS}
Valid(d) == SelectSeq(d, LAMBDA e : Len(e.v) >= MIN_WAYPOINTS)

\* mutant: the sort leaves the table order
InsertByLen_Unsorted(sorted, e) == Append(sorted, e)

\* mutant: among entries of one length the later one goes first
InsertByLen_TiesReversed(sorted, e) ==
    LET p == Cardinality({i \in 1..Len(sorted) : Len(sorted[i].v) > Len(e.v)})
    IN  SubSeq(sorted, 1, p) \o <<e>> \o SubSeq(sorted, p + 1, Len(sorted))

\* sorted(valid.keys(), key=lambda v: len(valid[v]), reverse=True): a stable
\* sort, so an entry goes behind every entry that is at least as long
InsertByLen(sorted, e) ==
    LET p == Cardinality({i \in 1..Len(sorted) : Len(sorted[i].v) >= Len(e.v)})
    IN  SubSeq(sorted, 1, p) \o <<e>> \o SubSeq(sorted, p + 1, Len(sorted))

RECURSIVE SortedByLen(_)
SortedByLen(d) ==
    IF d = << >> THEN << >>
    ELSE InsertByLen(SortedByLen(SubSeq(d, 1, Len(d) - 1)), d[Len(d)])

\* mutant: the table is sorted and cut whatever its size
Cap_AlwaysSort(valid) ==
    SubSeq(SortedByLen(valid), 1, IF Len(valid) > MAX_VEHICLES THEN MAX_VEHICLES ELSE Len(valid))

\* if len(valid) > MAX_VEHICLES: valid = the first MAX_VEHICLES of the sort
Cap(valid) ==
    IF Len(valid) > MAX_VEHICLES
    THEN SubSeq(SortedByLen(valid), 1, MAX_VEHICLES)
    ELSE valid

\* [{'id': vid, 'waypoints': wps} for vid, wps in valid.items()]
Deckgl(valid) == [i \in 1..Len(valid) |-> [id |-> valid[i].k, waypoints |-> valid[i].v]]

(***************************************************************************)
(* postprocess.py, step 4 output and step 2 table.                         *)
(***************************************************************************)
\* [{'id':vid,'waypoints':wps} for vid,wps in vehicles.items() if len(wps)>=5]
PpDeckgl(d) == Deckgl(SelectSeq(d, LAMBDA e : Len(e.v) >= PP_MIN_WAYPOINTS))

(***************************************************************************)
(* The static network (sumolib): edges in file order.  speed in tenths of  *)
(* m/s, length in tenths of m, shape already in geographic coordinates     *)
(* (convertXY2LonLat applied), in units of 1e-5 degree.                    *)
(***************************************************************************)
E_12_0   == <<"1", "2", "#", "0">>
E_12_1   == <<"1", "2", "#", "1">>
E_m12_0  == <<"-", "1", "2", "#", "0">>
E_a_b    == <<"a", "_", "b">>
E_junction == <<":", "j", "1">>
E_34_0   == <<"3", "4", "#", "0">>
E_34_1   == <<"3", "4", "#", "1">>
E_56_0   == <<"5", "6", "#", "0">>
E_56_1   == <<"5", "6", "#", "1">>
E_zz     == <<"z", "z">>
E_12_2   == <<"1", "2", "#", "2">>

net ==
    << [id |-> E_12_1, lanes |-> 2, speed |-> 139, length |-> 1000,
        shape |-> << <<2883602, 4696500>>, <<2883700, 4696600>> >>],
       [id |-> E_12_0, lanes |-> 2, speed |-> 139, length |-> 500,
        shape |-> << <<2883500, 4696500>>, <<2883600, 4696500>> >>],
       [id |-> E_m12_0, lanes |-> 2, speed |-> 139, length |-> 500,
        shape |-> << <<2883600, 4696510>>, <<2883500, 4696510>> >>],
       [id |-> E_a_b, lanes |-> 1, speed |-> 20, length |-> 90,
        shape |-> << <<2870000, 4690000>>, <<2870100, 4690000>> >>],
       [id |-> E_junction, lanes |-> 1, speed |-> 139, length |-> 100,
        shape |-> << <<2883600, 4696500>>, <<2883602, 4696500>> >>],
       [id |-> E_34_0, lanes |-> 3, speed |-> 100, length |-> 2000,
        shape |-> << <<2884500, 4700500>>, <<2884600, 4700500>>,
                     <<2884700, 4700500>> >>],
       [id |-> E_34_1, lanes |-> 3, speed |-> 100, length |-> 1000,
        shape |-> << <<2884705, 4700500>>, <<2884800, 4700500>> >>],
       [id |-> E_56_1, lanes |-> 1, speed |-> 100, length |-> 1000,
        shape |-> << <<2884503, 4700605>>, <<2884503, 4700700>> >>],
       [id |-> E_56_0, lanes |-> 1, speed |-> 100, length |-> 1000,
        shape |-> << <<2884499, 4700500>>, <<2884499, 4700600>> >>],
       [id |-> E_12_2, lanes |-> 1, speed |-> 139, length |-> 700,
        shape |-> << <<2870000, 4691000>>, <<2870100, 4691000>> >>] >>

\* the edge ids of net.getRoundabouts()
roundabout_edges == {E_a_b}

NetHas(eid)  == \E i \in 1..Len(net) : net[i].id = eid
NetEdge(eid) == net[CHOOSE i \in 1..Len(net) : net[i].id = eid]

Max(a, b) == IF a >= b THEN a ELSE b

\* the literals 10.0, 50.0 and 4.0
Lit10 == FInt(10)
Lit50 == FInt(50)
Lit4  == FInt(4)

\* edge.getSpeed() and edge.getLength() of an edge of the network, and a
\* coordinate of convertXY2LonLat
SpeedOf(e)  == FDec(e.speed, 1)
GetLength(e) == FDec(e.length, 1)
Degrees(x)  == FDec(x, 5)

\* ff = max(edge.getSpeed() * 3.6, 10.0); 50.0 when net.getEdge raises
FreeFlow(eid) ==
    IF NetHas(eid) THEN FMax(FMul(SpeedOf(NetEdge(eid)), Lit3_6), Lit10) ELSE Lit50

\* length = edge.getLength(); 50.0 when net.getEdge raises
LengthOf(eid) == IF NetHas(eid) THEN GetLength(NetEdge(eid)) ELSE Lit50

\* one row of the congestion table for a key of edge_speed_count.
\* mean_speed_kmh = round(sum / count, 2), in hundredths of km/h;
\* mean_speed_rel = round(mean_speed / ff, 4), in units of 1e-4;
\* freeflow_kmh = round(ff, 1), in tenths; length_m = round(length, 1), in
\* tenths; peak_flow = round(count / 4.0, 1), in tenths
RowFrom(edge_id, mean_speed, ff, count) ==
    [edge_id        |-> edge_id,
     mean_speed_kmh |-> PyRound(mean_speed, 2),
     mean_speed_rel |-> PyRound(FDiv(mean_speed, ff), 4),
     freeflow_kmh   |-> PyRound(ff, 1),
     length_m       |-> PyRound(LengthOf(edge_id), 1),
     sample_count   |-> count,
     peak_flow      |-> PyRound(FDiv(FInt(count), Lit4), 1)]

\* mean_speed = edge_speed_sum[edge_id] / count and ff of the segment
Row(edge_id, total, count) ==
    RowFrom(edge_id, FDiv(total, FInt(count)), FreeFlow(edge_id), count)

\* the traces of the roads family: for each segment, in the order the trace
\* first names them, the speeds of its lines in file order, in tenths of m/s
NoLine == << >>

\* count lines of one speed
Lined(count, speed) == [i \in 1..count |-> speed]

RoadEdges ==
    <<E_12_0, E_12_1, E_m12_0, E_a_b, E_34_0, E_34_1, E_56_0, E_56_1, E_zz, E_12_2>>

\* lines whose mean is 12.9, 17.2 and 21.5 km/h: 1.5, 2 and 2.5 times the
\* reference of the first corridor
Mean12_9 == Lined(5, 36) \o Lined(1, 35)
Mean17_2 == Lined(7, 48) \o Lined(2, 47)
Mean21_5 == Lined(6, 60) \o Lined(1, 58)

\* lines whose mean ends on a 5 in the place after the last one kept, 29.925
\* and 21.825 km/h, and lines whose ratio does, 0.5845 on 12#0 and 0.6655 on
\* 34#0
Mean29_925 == Lined(5, 100) \o Lined(3, 55)
Mean21_825 == Lined(1, 100) \o Lined(7, 55)
Ratio0_5845 == Lined(7, 100) \o Lined(5, 55)
Ratio0_6655 == Lined(10, 67) \o Lined(1, 62)

\* what a trace may hold for each segment of RoadEdges
Picks ==
    << {NoLine, Mean12_9, Mean17_2, Mean21_5, Mean29_925, Mean21_825, Ratio0_5845},
       {NoLine, Mean12_9, Mean21_5},
       {NoLine, Lined(1, 48)},
       {NoLine, Lined(1, 30), Lined(1, 25)},
       {NoLine, Lined(1, 25), Lined(1, 90), <<36, 37, 37>>, Lined(1, 9), Ratio0_6655},
       {NoLine, Lined(1, 45), Lined(1, 207)},
       {NoLine, Lined(4, 60)},
       {NoLine, Lined(1, 75)},
       {NoLine, Lined(1, 28)},
       {NoLine, Lined(1, 55)} >>

\* edge_speed_sum of a segment after its lines
PickTotal(speeds) == FSum([j \in 1..Len(speeds) |-> KmhOfTenths(speeds[j])])
TotalKnown == [p \in UNION {Picks[i] : i \in 1..Len(Picks)} |-> PickTotal(p)]

\* segment, sum and count of the keys of edge_speed_count after such a trace
PickKeys ==
    UNION {{<<RoadEdges[i], TotalKnown[p], Len(p)>> : p \in Picks[i] \ {NoLine}} :
              i \in 1..Len(RoadEdges)}

RowKnown ==
    [k \in PickKeys
           \cup UNION {{<<e, t.sum, t.count>> :
                          t \in {u \in KnownSums(e, MaxFolds) : u.count > 0}} :
                         e \in {x.edge : x \in TraceSamples}} |->
        Row(k[1], k[2], k[3])]

\* the rows a trace of the roads family gives a segment
PickRows(eid) == {RowKnown[k] : k \in {x \in PickKeys : x[1] = eid}}

\* one row per key of edge_speed_count, in its order
Rows(sum, count) ==
    [i \in 1..Len(count) |->
        LET edge_id == count[i].k
            total   == GetDefault(sum, edge_id, FZero)
        IN  Lookup(RowKnown, <<edge_id, total, count[i].v>>,
                   Row(edge_id, total, count[i].v))]

(***************************************************************************)
(* postprocess.py, step 3: roads_congestion.geojson.                       *)
(***************************************************************************)
\* congestion = {r['edge_id']: r ...}: the row of an edge
InCongestion(rs, eid) == \E i \in 1..Len(rs) : rs[i].edge_id = eid
RowOf(rs, eid) == rs[CHOOSE i \in 1..Len(rs) : rs[i].edge_id = eid]

\* the literals 0.25, 0.45, 0.60, 0.75 and 0.90
Lit0_25 == FDec(25, 2)
Lit0_45 == FDec(45, 2)
Lit0_60 == FDec(60, 2)
Lit0_75 == FDec(75, 2)
Lit0_90 == FDec(90, 2)

\* mutant: a ratio on the first threshold falls in the band below it
sr_to_color_Inclusive(sr) ==
    IF FLe(sr, Lit0_25) THEN <<204, 0, 0>>
    ELSE IF FLt(sr, Lit0_45) THEN <<255, 68, 0>>
    ELSE IF FLt(sr, Lit0_60) THEN <<255, 136, 0>>
    ELSE IF FLt(sr, Lit0_75) THEN <<255, 187, 0>>
    ELSE IF FLt(sr, Lit0_90) THEN <<136, 204, 0>>
    ELSE <<0, 170, 68>>

\* the double sr against the thresholds 0.25 0.45 0.60 0.75 0.90
sr_to_color(sr) ==
    IF FLt(sr, Lit0_25) THEN <<204, 0, 0>>
    ELSE IF FLt(sr, Lit0_45) THEN <<255, 68, 0>>
    ELSE IF FLt(sr, Lit0_60) THEN <<255, 136, 0>>
    ELSE IF FLt(sr, Lit0_75) THEN <<255, 187, 0>>
    ELSE IF FLt(sr, Lit0_90) THEN <<136, 204, 0>>
    ELSE <<0, 170, 68>>

\* the number of leading digits of a text
RECURSIVE LeadingDigits(_)
LeadingDigits(s) ==
    IF s # << >> /\ s[1] \in Digits THEN 1 + LeadingDigits(Tail(s)) ELSE 0

\* re.sub(r'^-?(\d+).*', r'\1', eid): the leading number without its sign,
\* the id itself when it does not start with a number
base_id(eid) ==
    LET body == IF eid # << >> /\ eid[1] = "-" THEN Tail(eid) ELSE eid
        n    == LeadingDigits(body)
    IN  IF n >= 1 THEN SubSeq(body, 1, n) ELSE eid

startswith(eid, c) == eid # << >> /\ eid[1] = c

\* re.search(r'#(\d+)$', id): the number after the last '#' when only digits
\* follow it, else 0
seg_num(eid) ==
    IF \E p \in 1..(Len(eid) - 1) :
          eid[p] = "#" /\ \A j \in (p + 1)..Len(eid) : eid[j] \in Digits
    THEN LET p == CHOOSE q \in 1..(Len(eid) - 1) :
                     eid[q] = "#" /\ \A j \in (q + 1)..Len(eid) : eid[j] \in Digits
         IN  IntVal(SubSeq(eid, p + 1, Len(eid)))
    ELSE 0

\* mutant: the direction is not part of the key
GroupKey_NoSign(e) ==
    [bid |-> base_id(e.id), n_lanes |-> e.lanes, is_neg |-> FALSE]

\* the key (base_id(eid), len(e.getLanes()), eid.startswith('-'))
GroupKey(e) ==
    [bid |-> base_id(e.id), n_lanes |-> e.lanes, is_neg |-> startswith(e.id, "-")]

\* mutant: edges without a row are grouped as well
RECURSIVE Groups_Unfiltered(_, _)
Groups_Unfiltered(rs, n) ==
    IF n = 0 THEN << >>
    ELSE LET g == Groups_Unfiltered(rs, n - 1)
             e == net[n]
         IN  IF startswith(e.id, ":") THEN g
             ELSE Put(g, GroupKey(e), Append(GetDefault(g, GroupKey(e), << >>), e))

\* groups[(base_id, lanes, is_neg)].append(e) over net.getEdges(), skipping
\* internal edges and edges without a row
RECURSIVE Groups(_, _)
Groups(rs, n) ==
    IF n = 0 THEN << >>
    ELSE LET g == Groups(rs, n - 1)
             e == net[n]
         IN  IF startswith(e.id, ":") \/ ~InCongestion(rs, e.id) THEN g
             ELSE Put(g, GroupKey(e), Append(GetDefault(g, GroupKey(e), << >>), e))

\* mutant: the edges stay in the order of the network
InsertBySegNum_Listed(sorted, e) == Append(sorted, e)

\* sorted(edges, key=seg_num): stable, ascending
InsertBySegNum(sorted, e) ==
    LET p == Cardinality({i \in 1..Len(sorted) : seg_num(sorted[i].id) <= seg_num(e.id)})
    IN  SubSeq(sorted, 1, p) \o <<e>> \o SubSeq(sorted, p + 1, Len(sorted))

RECURSIVE SortedBySegNum(_)
SortedBySegNum(edges) ==
    IF edges = << >> THEN << >>
    ELSE InsertBySegNum(SortedBySegNum(SubSeq(edges, 1, Len(edges) - 1)),
                        edges[Len(edges)])

\* the literal 5e-5
Lit5e_5 == FDec(5, 5)

\* abs(x - y) < 5e-5 for two coordinates in units of 1e-5 degree
Closer(x, y) == FLt(FAbs(FSub(Degrees(x), Degrees(y))), Lit5e_5)

\* mutant: only the longitudes are compared
Coincide_LonOnly(a, b) == Closer(a[1], b[1])

\* abs(ll[0][0]-merged[-1][0]) < 5e-5 and abs(ll[0][1]-merged[-1][1]) < 5e-5
Coincide(a, b) == Closer(a[1], b[1]) /\ Closer(a[2], b[2])

\* the first points of the shapes of the network against every point of them:
\* the pairs the merge compares
CoincideKnown ==
    [p \in {<<a, b>> :
               a \in {net[i].shape[1] : i \in {j \in 1..Len(net) : net[j].shape # << >>}},
               b \in UNION {{net[i].shape[j] : j \in 1..Len(net[i].shape)} :
                               i \in 1..Len(net)}} |->
        Coincide(p[1], p[2])]

\* the comparison of the first point of a shape with the last point merged
Touches(a, b) == Lookup(CoincideKnown, <<a, b>>, Coincide(a, b))

\* the merged polyline of the ordered edges
RECURSIVE Merged(_)
Merged(edges) ==
    IF edges = << >> THEN << >>
    ELSE LET merged == Merged(SubSeq(edges, 1, Len(edges) - 1))
             ll     == edges[Len(edges)].shape
         IN  IF merged # << >> /\ ll # << >> /\ Touches(ll[1], merged[Len(merged)])
             THEN merged \o Tail(ll)
             ELSE merged \o ll

\* row = congestion.get(e.getID()); if row is None: continue
Rated(rs, edges) == SelectSeq(edges, LAMBDA e : InCongestion(rs, e.id))

\* srs, flows and ws of one group: per rated segment row['mean_speed_rel'] in
\* units of 1e-4, row['peak_flow'] in tenths and e.getLength() in tenths of m
Parts(rs, edges) ==
    [i \in 1..Len(edges) |->
        [sr   |-> RowOf(rs, edges[i].id).mean_speed_rel,
         flow |-> RowOf(rs, edges[i].id).peak_flow,
         w    |-> edges[i].length]]

\* e.getLength() of the edges of the network, as doubles
LengthKnown == [w \in {net[i].length : i \in 1..Len(net)} |-> FDec(w, 1)]

\* the doubles the lists hold
PartSr(p)   == FDec(p.sr, 4)
PartFlow(p) == FDec(p.flow, 1)
PartW(p)    == Lookup(LengthKnown, p.w, FDec(p.w, 1))

\* W = sum(ws)
Weight(parts) == FSum([i \in 1..Len(parts) |-> PartW(parts[i])])

\* sum(s*w for s,w in zip(srs,ws)) and sum(f*w for f,w in zip(flows,ws))
WeightedSr(parts) ==
    FSum([i \in 1..Len(parts) |-> FMul(PartSr(parts[i]), PartW(parts[i]))])
WeightedFlow(parts) ==
    FSum([i \in 1..Len(parts) |-> FMul(PartFlow(parts[i]), PartW(parts[i]))])

\* avg_sr = sum(s*w ...)/W and avg_flow = sum(f*w ...)/W
AveragesOver(parts, W) ==
    [avg_sr   |-> FDiv(WeightedSr(parts), W),
     avg_flow |-> FDiv(WeightedFlow(parts), W)]
Averages(parts) == AveragesOver(parts, Weight(parts))

\* what a feature carries of the averages: speed_ratio = round(float(avg_sr),
\* 3) in units of 1e-3, peak_flow = int(avg_flow), color = sr_to_color(avg_sr);
\* avg_sr and avg_flow are the doubles of lines 163-164
RatingOf(av) ==
    [speed_ratio |-> PyRound(av.avg_sr, 3),
     peak_flow   |-> FTrunc(av.avg_flow),
     avg_sr      |-> av.avg_sr,
     avg_flow    |-> av.avg_flow,
     color       |-> sr_to_color(av.avg_sr)]
Rating(parts) == RatingOf(Averages(parts))

\* the parts of a group of the roads family: each of its ordered segments
\* with one of its rows or without a row
PartsKnown(edges) ==
    LET known[n \in 0..Len(edges)] ==
            IF n = 0 THEN {<< >>}
            ELSE UNION {{ps} \cup {Append(ps, [sr   |-> r.mean_speed_rel,
                                               flow |-> r.peak_flow,
                                               w    |-> edges[n].length]) :
                                      r \in PickRows(edges[n].id)} :
                           ps \in known[n - 1]}
    IN  known[Len(edges)] \ {<< >>}

\* the groups of the network, every segment taken as rated
NetGroups == Groups([i \in 1..Len(net) |-> [edge_id |-> net[i].id]], Len(net))

\* the groups of one segment that the rows of the traces rate, and the groups
\* of the roads family
RatingKnown ==
    [p \in {<<[sr   |-> RowKnown[k].mean_speed_rel,
               flow |-> RowKnown[k].peak_flow,
               w    |-> NetEdge(k[1]).length]>> :
               k \in {x \in DOMAIN RowKnown : NetHas(x[1])}}
           \cup UNION {PartsKnown(SortedBySegNum(NetGroups[i].v)) :
                          i \in 1..Len(NetGroups)} |->
        Rating(p)]

\* mutant: the offsets start at zero
LaneOffset_FromZero(li, n_lanes) == li * 32

\* off = (li-(n_lanes-1)/2.0)*3.2 for li in range(n_lanes), in tenths; a single
\* lane is not offset
LaneOffset(li, n_lanes) ==
    IF n_lanes = 1 THEN 0 ELSE (2 * li - (n_lanes - 1)) * 16

\* the features of one group with its rating: one per lane.  offset is
\* (li - (n_lanes - 1) / 2.0) * 3.2 in tenths, the argument of offset_line; a
\* single lane carries merged itself
LaneFeatures(key, edges, merged, rating) ==
    [li \in 1..key.n_lanes |->
        [coordinates   |-> merged,
         offset        |-> LaneOffset(li - 1, key.n_lanes),
         speed_ratio   |-> rating.speed_ratio,
         peak_flow     |-> rating.peak_flow,
         avg_sr        |-> rating.avg_sr,
         avg_flow      |-> rating.avg_flow,
         color         |-> rating.color,
         n_lanes       |-> key.n_lanes,
         is_roundabout |-> \E i \in 1..Len(edges) : edges[i].id \in roundabout_edges]]

\* none when the merged line has under 2 points or no segment has a row
RatedFeatures(key, edges, merged, parts) ==
    IF Len(merged) < 2 \/ parts = << >> THEN << >>
    ELSE LaneFeatures(key, edges, merged, Lookup(RatingKnown, parts, Rating(parts)))

\* the segments of the group ordered, merged and rated
OrderedFeatures(rs, key, edges) ==
    RatedFeatures(key, edges, Merged(edges), Parts(rs, Rated(rs, edges)))
GroupFeatures(rs, key, unsorted) ==
    OrderedFeatures(rs, key, SortedBySegNum(unsorted))

\* a group whose lengths sum to zero: avg_sr divides by W
DividesByZero(rs, g) ==
    \E i \in 1..Len(g) :
        /\ Len(Merged(SortedBySegNum(g[i].v))) >= 2
        /\ Rated(rs, g[i].v) # << >>
        /\ Weight(Parts(rs, Rated(rs, g[i].v))) = FZero

RECURSIVE Features(_, _, _)
Features(rs, g, n) ==
    IF n = 0 THEN << >>
    ELSE Features(rs, g, n - 1) \o GroupFeatures(rs, g[n].k, g[n].v)

(***************************************************************************)
(* postprocess.py, step 5: validation against the reference corridors.     *)
(* bbox in units of 1e-5 degree, google in tenths of km/h.                 *)
(***************************************************************************)
ground_truth ==
    << [name |-> "Calea Iesilor -> Centru",
        lon0 |-> 2883000, lon1 |-> 2885500, lat0 |-> 4696000, lat1 |-> 4697500, google |-> 86],
       [name |-> "Botanica -> Primarie",
        lon0 |-> 2884000, lon1 |-> 2887000, lat0 |-> 4695500, lat1 |-> 4699000, google |-> 71],
       [name |-> "Moscova -> UTM",
        lon0 |-> 2884500, lon1 |-> 2887000, lat0 |-> 4700500, lat1 |-> 4703000, google |-> 88],
       [name |-> "Alba Iulia -> Bd. Dacia",
        lon0 |-> 2880000, lon1 |-> 2886000, lat0 |-> 4700500, lat1 |-> 4704500, google |-> 107],
       [name |-> "Ciocana -> Centru",
        lon0 |-> 2889000, lon1 |-> 2895000, lat0 |-> 4699000, lat1 |-> 4703000, google |-> 97],
       [name |-> "Muncesti -> Bd. Stefan",
        lon0 |-> 2882000, lon1 |-> 2886500, lat0 |-> 4695000, lat1 |-> 4698500, google |-> 125] >>

\* the rows whose edge the network knows and whose first shape vertex lies in
\* the box, bounds included
InBox(rs, c) ==
    {i \in 1..Len(rs) :
        /\ NetHas(rs[i].edge_id)
        /\ LET pt == NetEdge(rs[i].edge_id).shape[1]
           IN  /\ c.lon0 <= pt[1] /\ pt[1] <= c.lon1
               /\ c.lat0 <= pt[2] /\ pt[2] <= c.lat1}

\* the literals 1.5 and 2.5, and info['google'] of a corridor
Lit1_5 == FDec(15, 1)
Lit2_5 == FDec(25, 1)
Google(c) == FDec(c.google, 1)

\* speeds: the mean_speed_kmh, in hundredths, of the rows in the box in the
\* order of the table
Speeds(rs, c) ==
    SelectSeqIdx([i \in 1..Len(rs) |-> rs[i].mean_speed_kmh], InBox(rs, c))

\* ratio = sim / info['google'] with sim = sum(speeds) / len(speeds)
Ratio(speeds, c) ==
    LET sim == FDiv(FSum([i \in 1..Len(speeds) |-> FDec(speeds[i], 2)]),
                    FInt(Len(speeds)))
    IN  FDiv(sim, Google(c))

\* mutant: a ratio on a threshold falls in the band below it
Band_Inclusive(ratio) ==
    IF FLe(ratio, Lit1_5) THEN "GOOD"
    ELSE IF FLe(ratio, Lit2_5) THEN "HIGH"
    ELSE "TOO FAST"

\* GOOD if ratio < 1.5, HIGH if ratio < 2.5, else TOO FAST
Band(ratio) ==
    IF FLt(ratio, Lit1_5) THEN "GOOD"
    ELSE IF FLt(ratio, Lit2_5) THEN "HIGH"
    ELSE "TOO FAST"

\* the speeds of a corridor of the roads family: each segment of its box, in
\* the order of the table, with one of its rows or without a row
SpeedsKnown(c) ==
    LET known[n \in 0..Len(RoadEdges)] ==
            IF n = 0 THEN {<< >>}
            ELSE IF InBox(<<[edge_id |-> RoadEdges[n]]>>, c) = {} THEN known[n - 1]
            ELSE UNION {{ss} \cup {Append(ss, r.mean_speed_kmh) :
                                      r \in PickRows(RoadEdges[n])} :
                           ss \in known[n - 1]}
    IN  known[Len(RoadEdges)] \ {<< >>}

\* the corridors that hold one segment the rows of the traces rate, and the
\* corridors of the roads family
StatusKnown ==
    [q \in UNION {{<<Speeds(<<RowKnown[k]>>, ground_truth[i]), ground_truth[i]>> :
                      i \in {j \in 1..Len(ground_truth) :
                                InBox(<<RowKnown[k]>>, ground_truth[j]) # {}}} :
                     k \in DOMAIN RowKnown}
           \cup UNION {{<<ss, ground_truth[i]>> : ss \in SpeedsKnown(ground_truth[i])} :
                          i \in 1..Len(ground_truth)} |->
        Band(Ratio(q[1], q[2]))]

\* "NO DATA" without speeds, else the band of the ratio
Status(speeds, c) ==
    IF speeds = << >> THEN "NO DATA"
    ELSE Lookup(StatusKnown, <<speeds, c>>, Band(Ratio(speeds, c)))
Verdict(rs, c) == Status(Speeds(rs, c), c)

Report(rs) == [i \in 1..Len(ground_truth) |->
                 [name |-> ground_truth[i].name, status |-> Verdict(rs, ground_truth[i])]]

(***************************************************************************)
(* Initial state: both scripts before their first line.                    *)
(***************************************************************************)
\* sr_to_color not called
ClassifierIdle == cls_sr = 0 /\ cls_color = << >>

\* no controller constructed
ControllerIdle ==
    /\ intersection_ids = << >>
    /\ min_green = 25 /\ max_green = 60 /\ pressure_threshold = 3
    /\ initialized = FALSE
    /\ phase_start = << >> /\ current_phase = << >> /\ phase_lanes = << >>
    /\ step = 0

\* scale_trips.py not started, no trips to load
ScalerIdle ==
    /\ st_pc = "load"
    /\ original_trips = << >>
    /\ pool = << >> /\ unclassified = 0
    /\ origin_pool = << >> /\ dest_pool = << >> /\ global_pool = << >>
    /\ nrows = 0
    /\ new_trips = << >> /\ trip_idx = 0 /\ fallback_used = 0

\* no lane read
KeyerIdle == key_lane = << >> /\ key_edge_id = << >> /\ key_done = FALSE

AuxIdle == ClassifierIdle /\ ControllerIdle /\ ScalerIdle /\ KeyerIdle

\* both scripts before their first line
PipelineStart ==
    /\ eof = FALSE
    /\ nsteps = 0
    /\ last_time = -10
    /\ monotone = TRUE
    /\ folded = EmptyBag
    /\ seen = << >>
    /\ mk_pc = "scan"
    /\ cur_time = -10
    /\ in_window = FALSE
    /\ vehicles = << >>
    /\ deckgl = << >>
    /\ full = [pc |-> "scan", cur_time |-> -10, in_window |-> FALSE,
               vehicles |-> << >>]
    /\ pp_pc = "scan"
    /\ current_time = -10
    /\ in_peak = FALSE
    /\ sample_this = FALSE
    /\ edge_speed_sum = << >>
    /\ edge_speed_count = << >>
    /\ rows = << >>
    /\ features = << >>
    /\ report = << >>
    /\ pp4_pc = "scan"
    /\ pp_cur_time = -10
    /\ pp_vehicles = << >>
    /\ pp_deckgl = << >>
    /\ pp_full = [pc |-> "scan", cur_time |-> -10, vehicles |-> << >>]

PipelineInit == trace_class \in Classes /\ PipelineStart

Init == PipelineInit /\ AuxIdle

(***************************************************************************)
(* Bounds on the file: the waypoints and samples a trace may bring.        *)
(***************************************************************************)
TotalWps(d) == SumSeq([i \in 1..Len(d) |-> Len(d[i].v)])

WpsOf(d, vid) == IF Has(d, vid) THEN Len(Get(d, vid)) ELSE 0

Bounded(line) ==
    /\ line.tag = "timestep" => nsteps < MaxSteps
    /\ line.tag = "vehicle" =>
        IF trace_class \in {"volume", "ties"}
        THEN /\ WpsOf(full.vehicles, line.id) < MaxPerVehicle
             /\ WpsOf(pp_full.vehicles, line.id) < MaxPerVehicle
        ELSE /\ TotalWps(full.vehicles) < MaxWaypoints
             /\ TotalWps(pp_full.vehicles) < MaxWaypoints
             /\ BagCardinality(folded) < MaxSamples

\* a boundary line whose time attribute the pattern extracts
TimeMatched(line) == line.tag = "timestep" /\ ReNum(line.time)

\* a boundary line whose time every loop parses
TimeRead(line) ==
    line.tag = "timestep" /\ ReNum(line.time) /\ FloatOK(line.time)

\* a sample line that step 1 folds
Folds(line) ==
    /\ pp_pc = "scan" /\ sample_this /\ line.tag = "vehicle"
    /\ ReAny(line.lane) /\ ReNum(line.speed) /\ FloatOK(line.speed)

(***************************************************************************)
(* Actions.                                                                *)
(***************************************************************************)
\* one line of the file, through every loop that is still reading
ReadLineOf(line) ==
        /\ Bounded(line)
        /\ \E mk \in {MkBody([pc |-> mk_pc, cur_time |-> cur_time,
                                in_window |-> in_window, vehicles |-> vehicles],
                               line, TRUE)},
              ed \in {EdgeBody([pc |-> pp_pc, current_time |-> current_time,
                                 in_peak |-> in_peak, sample_this |-> sample_this,
                                 sum |-> edge_speed_sum, count |-> edge_speed_count],
                                line)},
              p4 \in {Pp4Body([pc |-> pp4_pc, cur_time |-> pp_cur_time,
                                vehicles |-> pp_vehicles], line, TRUE)} :
               /\ mk_pc' = mk.pc
               /\ cur_time' = mk.cur_time
               /\ in_window' = mk.in_window
               /\ vehicles' = mk.vehicles
               /\ pp_pc' = ed.pc
               /\ current_time' = ed.current_time
               /\ in_peak' = ed.in_peak
               /\ sample_this' = ed.sample_this
               /\ edge_speed_sum' = ed.sum
               /\ edge_speed_count' = ed.count
               /\ pp4_pc' = p4.pc
               /\ pp_cur_time' = p4.cur_time
               /\ pp_vehicles' = p4.vehicles
        /\ full' = MkBody(full, line, FALSE)
        /\ pp_full' = Pp4Body(pp_full, line, FALSE)
        /\ nsteps' = IF TimeRead(line) THEN nsteps + 1 ELSE nsteps
        /\ last_time' = IF TimeRead(line) THEN Float(line.time) ELSE last_time
        /\ monotone' = (monotone /\ (TimeMatched(line) =>
                            FloatOK(line.time) /\ Float(line.time) >= last_time))
        /\ folded' = IF Folds(line)
                     THEN folded (+) SetToBag({[edge |-> EdgeId(line.lane),
                                                kmh |-> Kmh(line.speed)]})
                     ELSE folded
        /\ seen' = IF line.tag = "vehicle" /\ ReAny(line.id)
                         /\ \A i \in 1..Len(seen) : seen[i] # line.id
                   THEN Append(seen, line.id)
                   ELSE seen
        /\ UNCHANGED <<trace_class, eof, deckgl, rows, features, report, pp_deckgl>>
        /\ UNCHANGED aux_vars

\* the next line of the file
ReadLine ==
    /\ ~eof
    /\ \E line \in Lines(trace_class) : ReadLineOf(line)

\* the file ends: every loop still reading falls out of its for statement
EndOfFile ==
    /\ ~eof
    /\ eof' = TRUE
    /\ mk_pc' = IF mk_pc = "scan" THEN "finalize" ELSE mk_pc
    /\ pp_pc' = IF pp_pc = "scan" THEN "step2" ELSE pp_pc
    /\ pp4_pc' = IF pp4_pc = "scan" THEN "end" ELSE pp4_pc
    /\ full' = [full EXCEPT !.pc = IF @ = "scan" THEN "end" ELSE @]
    /\ pp_full' = [pp_full EXCEPT !.pc = IF @ = "scan" THEN "end" ELSE @]
    /\ UNCHANGED <<trace_class, nsteps, last_time, monotone, folded, seen, cur_time,
                   in_window,
                   vehicles, deckgl, current_time, in_peak, sample_this,
                   edge_speed_sum, edge_speed_count, rows, features, report,
                   pp_cur_time, pp_vehicles, pp_deckgl>>
    /\ UNCHANGED aux_vars

\* make_deckgl.py lines 83-96: filter, cap, write trips_deckgl.json
MkFinalize ==
    /\ mk_pc = "finalize"
    /\ deckgl' = Deckgl(Cap(Valid(vehicles)))
    /\ mk_pc' = "done"
    /\ UNCHANGED <<trace_class, eof, nsteps, last_time, monotone, folded, seen, cur_time,
                   in_window, vehicles, full, pp_pc, current_time, in_peak,
                   sample_this, edge_speed_sum, edge_speed_count, rows, features,
                   report, pp4_pc, pp_cur_time, pp_vehicles, pp_deckgl, pp_full>>
    /\ UNCHANGED aux_vars

\* postprocess.py lines 80-106: the congestion table, edge_congestion.csv and
\* the summary; df.mean_speed_rel of a frame built from no rows has no such
\* column and raises AttributeError
Step2 ==
    /\ pp_pc = "step2"
    /\ rows' = Rows(edge_speed_sum, edge_speed_count)
    /\ pp_pc' = IF rows' = << >> THEN "AttributeError" ELSE "step3"
    /\ UNCHANGED <<trace_class, eof, nsteps, last_time, monotone, folded, seen, mk_pc,
                   cur_time,
                   in_window, vehicles, deckgl, full, current_time, in_peak,
                   sample_this, edge_speed_sum, edge_speed_count, features,
                   report, pp4_pc, pp_cur_time, pp_vehicles, pp_deckgl, pp_full>>
    /\ UNCHANGED aux_vars

\* postprocess.py lines 108-183: group, merge, rate and write the features;
\* a group whose lengths sum to zero raises ZeroDivisionError
Step3 ==
    /\ pp_pc = "step3"
    /\ LET groups == Groups(rows, Len(net))
       IN  IF DividesByZero(rows, groups)
           THEN pp_pc' = "ZeroDivisionError" /\ UNCHANGED features
           ELSE pp_pc' = "step4" /\ features' = Features(rows, groups, Len(groups))
    /\ UNCHANGED <<trace_class, eof, nsteps, last_time, monotone, folded, seen, mk_pc,
                   cur_time,
                   in_window, vehicles, deckgl, full, current_time, in_peak,
                   sample_this, edge_speed_sum, edge_speed_count, rows, report,
                   pp4_pc, pp_cur_time, pp_vehicles, pp_deckgl, pp_full>>
    /\ UNCHANGED aux_vars

\* postprocess.py lines 195-216: the step 4 loop has read the file; an
\* exception in it ends the script, otherwise trips_deckgl.json is written
Step4 ==
    /\ pp_pc = "step4"
    /\ IF pp4_pc = "ValueError"
       THEN pp_pc' = "ValueError" /\ UNCHANGED pp_deckgl
       ELSE pp_pc' = "step5" /\ pp_deckgl' = PpDeckgl(pp_vehicles)
    /\ UNCHANGED <<trace_class, eof, nsteps, last_time, monotone, folded, seen, mk_pc,
                   cur_time,
                   in_window, vehicles, deckgl, full, current_time, in_peak,
                   sample_this, edge_speed_sum, edge_speed_count, rows, features,
                   report, pp4_pc, pp_cur_time, pp_vehicles, pp_full>>
    /\ UNCHANGED aux_vars

\* postprocess.py lines 219-254: the validation table
Step5 ==
    /\ pp_pc = "step5"
    /\ report' = Report(rows)
    /\ pp_pc' = "done"
    /\ UNCHANGED <<trace_class, eof, nsteps, last_time, monotone, folded, seen, mk_pc,
                   cur_time,
                   in_window, vehicles, deckgl, full, current_time, in_peak,
                   sample_this, edge_speed_sum, edge_speed_count, rows, features,
                   pp4_pc, pp_cur_time, pp_vehicles, pp_deckgl, pp_full>>
    /\ UNCHANGED aux_vars

Next == ReadLine \/ EndOfFile \/ MkFinalize \/ Step2 \/ Step3 \/ Step4 \/ Step5

Spec == Init /\ [][Next]_vars

(***************************************************************************)
(* The two scripts on the traces of the family "ties": vehicles that are   *)
(* in the file before the window opens.                                    *)
(***************************************************************************)
TiesInit == trace_class = "ties" /\ PipelineStart /\ AuxIdle

TiesSpec == TiesInit /\ [][Next]_vars

(***************************************************************************)
(* Steps 2 to 5 of postprocess.py on their own: the state after the scan   *)
(* of a trace whose only boundary time is 17h, whose vehicle lines carry a *)
(* lane and a speed and no position.  For each segment the trace has the   *)
(* lines of a pick: their speeds in file order, in tenths of m/s.          *)
(***************************************************************************)
\* the tables step 1 builds from such a trace
CountTable(pick) ==
    LET all == [i \in 1..Len(RoadEdges) |-> [k |-> RoadEdges[i], v |-> Len(pick[i])]]
    IN  SelectSeq(all, LAMBDA e : e.v > 0)

SumTable(pick) ==
    LET named == {i \in 1..Len(RoadEdges) : pick[i] # << >>}
        all   == [i \in 1..Len(RoadEdges) |->
                    [k |-> RoadEdges[i],
                     v |-> Lookup(TotalKnown, pick[i], PickTotal(pick[i]))]]
    IN  SelectSeqIdx(all, named)

RECURSIVE FoldedLines(_, _)
\* the samples of the lines 1..n of the speeds of one segment
FoldedLines(edge, speeds) ==
    IF speeds = << >> THEN EmptyBag
    ELSE FoldedLines(edge, Tail(speeds))
         (+) SetToBag({[edge |-> edge, kmh |-> 36 * speeds[1]]})

RECURSIVE FoldedBag(_, _)
FoldedBag(pick, n) ==
    IF n = 0 THEN EmptyBag
    ELSE FoldedBag(pick, n - 1) (+) FoldedLines(RoadEdges[n], pick[n])

AfterScan(pick) ==
    /\ trace_class = "timing"
    /\ eof = TRUE
    /\ nsteps = 1
    /\ last_time = 10 * EVENING_START
    /\ monotone = TRUE
    /\ folded = FoldedBag(pick, Len(RoadEdges))
    /\ seen = << >>
    /\ mk_pc = "done"
    /\ cur_time = 10 * EVENING_START
    /\ in_window = FALSE
    /\ vehicles = << >>
    /\ deckgl = << >>
    /\ full = [pc |-> "end", cur_time |-> 10 * EVENING_START, in_window |-> FALSE,
               vehicles |-> << >>]
    /\ pp_pc = "step2"
    /\ current_time = 10 * EVENING_START
    /\ in_peak = TRUE
    /\ sample_this = TRUE
    /\ edge_speed_sum = SumTable(pick)
    /\ edge_speed_count = CountTable(pick)
    /\ rows = << >>
    /\ features = << >>
    /\ report = << >>
    /\ pp4_pc = "break"
    /\ pp_cur_time = 10 * EVENING_START
    /\ pp_vehicles = << >>
    /\ pp_deckgl = << >>
    /\ pp_full = [pc |-> "end", cur_time |-> 10 * EVENING_START, vehicles |-> << >>]

RoadsInit ==
    /\ AuxIdle
    /\ \E c1 \in Picks[1], c2 \in Picks[2], c3 \in Picks[3], c4 \in Picks[4],
          c5 \in Picks[5], c6 \in Picks[6], c7 \in Picks[7], c8 \in Picks[8],
          c9 \in Picks[9], c10 \in Picks[10] :
            AfterScan(<<c1, c2, c3, c4, c5, c6, c7, c8, c9, c10>>)

RoadsNext == Step2 \/ Step3 \/ Step4 \/ Step5

RoadsSpec == RoadsInit /\ [][RoadsNext]_vars

(***************************************************************************)
(* sr_to_color on its own: every ratio from 0 to MaxSr, in units of 1e-4.  *)
(***************************************************************************)
\* the two scripts before their first line, on one family of traces
PipelineIdle == PipelineInit /\ trace_class = "timing"

ClassifierInit ==
    /\ PipelineIdle
    /\ ControllerIdle
    /\ ScalerIdle
    /\ KeyerIdle
    /\ cls_sr \in 0..MaxSr
    /\ cls_color = << >>

\* color = sr_to_color(avg_sr)
Classify ==
    /\ cls_color = << >>
    /\ cls_color' = sr_to_color(FDec(cls_sr, 4))
    /\ UNCHANGED <<pipeline_vars, cls_sr, controller_vars, scaler_vars, keyer_vars>>

ClassifierNext == Classify

ClassifierSpec == ClassifierInit /\ [][ClassifierNext]_vars

(***************************************************************************)
(* src/simulation: run_traci's loop driving AdaptivePressureController.    *)
(* TraCI is the environment: a network with the traffic lights J1 (three   *)
(* phases) and J2 (two phases); any other id is unknown to it and every    *)
(* call naming it raises.                                                  *)
(***************************************************************************)
control_interval == 5

Lanes == {"a", "b", "c", "x"}

TlsKnown(jid) == jid \in {"J1", "J2"}

\* len(traci.trafficlight.getCompleteRedYellowGreenDefinition(jid)[0].phases)
TlsPhases(jid) == IF jid = "J1" THEN 3 ELSE 2

\* traci.trafficlight.getControlledLinks(jid): per link index the list of
\* (incoming, outgoing) lanes
ControlledLinks(jid) ==
    IF jid = "J1"
    THEN << <<[incoming |-> "a", outgoing |-> "x"]>>,
            <<[incoming |-> "b", outgoing |-> "x"]>>,
            <<[incoming |-> "c", outgoing |-> "x"]>> >>
    ELSE << <<[incoming |-> "x", outgoing |-> "a"]>>,
            <<[incoming |-> "c", outgoing |-> "b"]>>,
            <<[incoming |-> "x", outgoing |-> "b"]>> >>

\* traci.trafficlight.setPhase(jid, phase) raises for an unknown id and for a
\* phase index the program does not have
SetPhaseRaises(jid, phase) == ~TlsKnown(jid) \/ phase < 0 \/ phase >= TlsPhases(jid)

\* traci.lane.getLastStepHaltingNumber for every lane, as the step reads it
Haltings == [Lanes -> 0..MaxQueue]
NoHalting == [l \in Lanes |-> 0]

\* the configurations: the adaptive section of the configuration file as a
\* dictionary, {} leaving every default in place
Cfgs ==
    { << >>,
      << [k |-> "min_green", v |-> 10], [k |-> "max_green", v |-> 20] >>,
      << [k |-> "min_green", v |-> 10], [k |-> "max_green", v |-> 18],
         [k |-> "pressure_threshold", v |-> 1] >> }

IdLists == { <<"J1">>, <<"J2", "J9">>, <<"J9", "J1">> }

RECURSIVE AppendIncoming(_, _, _)
\* for incoming, _, _ in link_list: append incoming unless already listed
AppendIncoming(lanes, link_list, m) ==
    IF m = 0 THEN lanes
    ELSE LET sofar == AppendIncoming(lanes, link_list, m - 1)
             l     == link_list[m].incoming
         IN  IF \E i \in 1..Len(sofar) : sofar[i] = l THEN sofar ELSE Append(sofar, l)

EmptyPhaseMap(n) == [i \in 1..n |-> [k |-> i - 1, v |-> << >>]]

RECURSIVE PhaseMap(_, _, _)
\* phase_map after the links of index 0..m-1: link idx serves phase idx % n
PhaseMap(links, n, m) ==
    IF m = 0 THEN EmptyPhaseMap(n)
    ELSE LET pm        == PhaseMap(links, n, m - 1)
             phase_idx == (m - 1) % n
         IN  Put(pm, phase_idx,
                 AppendIncoming(Get(pm, phase_idx), links[m], Len(links[m])))

\* _build_phase_lane_map
build_phase_lane_map(jid, n_phases) ==
    IF ~TlsKnown(jid) THEN EmptyPhaseMap(n_phases)
    ELSE PhaseMap(ControlledLinks(jid), Max(n_phases, 1), Len(ControlledLinks(jid)))

RECURSIVE initialize(_, _)
\* _initialize over the first m ids: the three dictionaries
initialize(ids, m) ==
    IF m = 0 THEN [cp |-> << >>, ps |-> << >>, pl |-> << >>]
    ELSE LET st  == initialize(ids, m - 1)
             jid == ids[m]
             n   == IF TlsKnown(jid) THEN TlsPhases(jid) ELSE 4
         IN  [cp |-> Put(st.cp, jid, 0),
              ps |-> Put(st.ps, jid, 0),
              pl |-> Put(st.pl, jid, build_phase_lane_map(jid, n))]

\* _lane_exists
lane_exists(l) == l \in Lanes

\* q_in = sum(getLastStepHaltingNumber(l) for l in lanes if _lane_exists(l))
q_in(lanes, h) ==
    SumSeq([i \in 1..Len(lanes) |-> IF lane_exists(lanes[i]) THEN h[lanes[i]] ELSE 0])

\* pressures: phase index -> q_in, in the order of the phase map
Pressures(pl, h) == [i \in 1..Len(pl) |-> [k |-> pl[i].k, v |-> q_in(pl[i].v, h)]]

\* max(pressures, key=pressures.get): the first key of the largest value
BestPhase(pressures) ==
    pressures[CHOOSE i \in 1..Len(pressures) :
                 /\ \A j \in 1..Len(pressures) : pressures[j].v <= pressures[i].v
                 /\ \A j \in 1..(i - 1) : pressures[j].v < pressures[i].v].k

\* mutant: the phase is recorded whether or not setPhase raises
switch_phase_Unchecked(st, jid, phase, sim_time) ==
    [st EXCEPT !.cp = Put(st.cp, jid, phase), !.ps = Put(st.ps, jid, sim_time)]

\* _switch_phase: nothing is recorded when setPhase raises
switch_phase(st, jid, phase, sim_time) ==
    IF SetPhaseRaises(jid, phase) THEN st
    ELSE [st EXCEPT !.cp = Put(st.cp, jid, phase), !.ps = Put(st.ps, jid, sim_time)]

\* mutant: the minimum green is not enforced
control_intersection_NoMinGreen(st, jid, sim_time, h) ==
    LET cur            == GetDefault(st.cp, jid, 0)
        start          == GetDefault(st.ps, jid, 0)
        green_duration == sim_time - start
        pl             == Get(st.pl, jid)
        pressures      == Pressures(pl, h)
    IN  IF green_duration >= max_green
        THEN switch_phase(st, jid, (cur + 1) % Len(pl), sim_time)
        ELSE IF pressures = << >> THEN st
        ELSE LET best_phase    == BestPhase(pressures)
                 best_pressure == Get(pressures, best_phase)
                 curr_pressure == GetDefault(pressures, cur, 0)
             IN  IF best_phase # cur
                    /\ best_pressure - curr_pressure >= pressure_threshold
                 THEN switch_phase(st, jid, best_phase, sim_time)
                 ELSE st

\* _control_intersection
control_intersection(st, jid, sim_time, h) ==
    LET cur            == GetDefault(st.cp, jid, 0)
        start          == GetDefault(st.ps, jid, 0)
        green_duration == sim_time - start
        pl             == Get(st.pl, jid)
        pressures      == Pressures(pl, h)
    IN  IF green_duration < min_green THEN st
        ELSE IF green_duration >= max_green
        THEN switch_phase(st, jid, (cur + 1) % Len(pl), sim_time)
        ELSE IF pressures = << >> THEN st
        ELSE LET best_phase    == BestPhase(pressures)
                 best_pressure == Get(pressures, best_phase)
                 curr_pressure == GetDefault(pressures, cur, 0)
             IN  IF best_phase # cur
                    /\ best_pressure - curr_pressure >= pressure_threshold
                 THEN switch_phase(st, jid, best_phase, sim_time)
                 ELSE st

RECURSIVE ControlAll(_, _, _, _)
\* for jid in self.intersection_ids: self._control_intersection(jid, sim_time)
ControlAll(st, sim_time, h, m) ==
    IF m = 0 THEN st
    ELSE control_intersection(ControlAll(st, sim_time, h, m - 1),
                              intersection_ids[m], sim_time, h)

ControllerInit ==
    /\ PipelineIdle
    /\ ClassifierIdle
    /\ ScalerIdle
    /\ KeyerIdle
    /\ intersection_ids \in IdLists
    /\ \E cfg \in Cfgs :
          /\ min_green = GetDefault(cfg, "min_green", 25)
          /\ max_green = GetDefault(cfg, "max_green", 60)
          /\ pressure_threshold = GetDefault(cfg, "pressure_threshold", 3)
    /\ initialized = FALSE
    /\ phase_start = << >> /\ current_phase = << >> /\ phase_lanes = << >>
    /\ step = 0

\* one turn of run_traci's loop: controller.step(step) with the halting
\* numbers h, then step += 1
StepWith(h) ==
    /\ step < MaxSimTime
    /\ LET ini == IF initialized
                  THEN [cp |-> current_phase, ps |-> phase_start, pl |-> phase_lanes]
                  ELSE initialize(intersection_ids, Len(intersection_ids))
           fin == IF step % control_interval # 0 THEN ini
                  ELSE ControlAll(ini, step, h, Len(intersection_ids))
       IN  /\ current_phase' = fin.cp
           /\ phase_start' = fin.ps
           /\ phase_lanes' = fin.pl
    /\ initialized' = TRUE
    /\ step' = step + 1
    /\ UNCHANGED <<intersection_ids, min_green, max_green, pressure_threshold>>
    /\ UNCHANGED <<pipeline_vars, classifier_vars, scaler_vars, keyer_vars>>

\* the halting numbers are read at control steps only
ControllerStep ==
    \E h \in (IF step % control_interval = 0 THEN Haltings ELSE {NoHalting}) :
        StepWith(h)

ControllerNext == ControllerStep

ControllerSpec == ControllerInit /\ [][ControllerNext]_vars


(***************************************************************************)
(* scale_trips.py: resampling the original trips by district pair.         *)
(* Coordinates in units of 1e-3 degree.                                    *)
(***************************************************************************)
DISTRICTS ==
    << [name |-> "centru",     lon0 |-> 28820, lon1 |-> 28875, lat0 |-> 46985, lat1 |-> 47020],
       [name |-> "botanica",   lon0 |-> 28840, lon1 |-> 28900, lat0 |-> 46955, lat1 |-> 46990],
       [name |-> "buiucani",   lon0 |-> 28790, lon1 |-> 28845, lat0 |-> 47010, lat1 |-> 47055],
       [name |-> "rascani",    lon0 |-> 28845, lon1 |-> 28910, lat0 |-> 47010, lat1 |-> 47055],
       [name |-> "ciocana",    lon0 |-> 28890, lon1 |-> 28960, lat0 |-> 46990, lat1 |-> 47040],
       [name |-> "telecentru", lon0 |-> 28820, lon1 |-> 28870, lat0 |-> 46950, lat1 |-> 46990],
       [name |-> "durlesti",   lon0 |-> 28740, lon1 |-> 28810, lat0 |-> 47020, lat1 |-> 47070],
       [name |-> "sculeni",    lon0 |-> 28790, lon1 |-> 28840, lat0 |-> 46960, lat1 |-> 47015] >>

None == "None"

\* the first district, in the order of DISTRICTS, whose box holds the point
get_district(lon, lat) ==
    LET hit == {i \in 1..Len(DISTRICTS) :
                   /\ DISTRICTS[i].lon0 <= lon /\ lon <= DISTRICTS[i].lon1
                   /\ DISTRICTS[i].lat0 <= lat /\ lat <= DISTRICTS[i].lat1}
    IN  IF hit = {} THEN None
        ELSE DISTRICTS[CHOOSE i \in hit : \A j \in hit : i <= j].name

\* the network of the scaler: the first shape vertex of each edge.  c1 lies
\* in centru alone, b1 in botanica and telecentru, b2 in botanica alone, o1 in
\* no district; an id not listed is unknown to the network
TripNet ==
    << [k |-> "c1", v |-> <<28850, 47000>>],
       [k |-> "b1", v |-> <<28850, 46970>>],
       [k |-> "b2", v |-> <<28880, 46960>>],
       [k |-> "o1", v |-> <<28700, 46900>>] >>

\* the district of an edge, None also when net.getEdge raises
DistrictOf(e) ==
    IF Has(TripNet, e) THEN get_district(Get(TripNet, e)[1], Get(TripNet, e)[2]) ELSE None

\* the trips a trips.trips.xml may hold
TripPairs == { <<"c1", "b1">>, <<"b2", "b1">>, <<"c1", "o1">>, <<"zz", "c1">> }

TripFiles == UNION {[1..n -> TripPairs] : n \in 0..MaxTrips}

\* the rows of od_matrix_scaled.csv
OdRows ==
    [origin : {"centru", "botanica", "ciocana"},
     destination : {"centru", "botanica", "ciocana"},
     time_bin : {25200},
     trips : 0..MaxN]

\* random.randint(0, 899): any integer from 0 to 899, both included
DepartOffsets == 0..899

RECURSIVE BuildPool(_, _)
\* lines 57-72 over the first m trips: the pool and the unclassified count
BuildPool(trips, m) ==
    IF m = 0 THEN [pool |-> << >>, unclassified |-> 0]
    ELSE LET st     == BuildPool(trips, m - 1)
             from_e == trips[m][1]
             to_e   == trips[m][2]
             orig_d == DistrictOf(from_e)
             dest_d == DistrictOf(to_e)
             pkey   == <<orig_d, dest_d>>
         IN  IF Has(TripNet, from_e) /\ Has(TripNet, to_e)
                /\ orig_d # None /\ dest_d # None
             THEN [st EXCEPT !.pool = Put(@, pkey,
                                          Append(GetDefault(@, pkey, << >>), trips[m]))]
             ELSE [st EXCEPT !.unclassified = @ + 1]

RECURSIVE Extend(_, _, _, _)
\* for pair in trips: d[k].append(pair), over the first m pairs
Extend(d, k, trips, m) ==
    IF m = 0 THEN d
    ELSE LET sofar == Extend(d, k, trips, m - 1)
         IN  Put(sofar, k, Append(GetDefault(sofar, k, << >>), trips[m]))

RECURSIVE FallbackPools(_, _)
\* lines 87-94 over the first m entries of the pool
FallbackPools(pl, m) ==
    IF m = 0 THEN [origin_pool |-> << >>, dest_pool |-> << >>, global_pool |-> << >>]
    ELSE LET st == FallbackPools(pl, m - 1)
             o  == pl[m].k[1]
             d  == pl[m].k[2]
         IN  [origin_pool |-> Extend(st.origin_pool, o, pl[m].v, Len(pl[m].v)),
              dest_pool   |-> Extend(st.dest_pool, d, pl[m].v, Len(pl[m].v)),
              global_pool |-> st.global_pool \o pl[m].v]

NonEmpty(d, k) == Has(d, k) /\ Len(Get(d, k)) > 0

\* [(t, f) for f, t in pairs]
Swapped(pairs) == [i \in 1..Len(pairs) |-> <<pairs[i][2], pairs[i][1]>>]

\* lines 111-130: the candidates of a row
Candidates(orig, dest) ==
    IF NonEmpty(pool, <<orig, dest>>) THEN Get(pool, <<orig, dest>>)
    ELSE IF NonEmpty(pool, <<dest, orig>>) THEN Swapped(Get(pool, <<dest, orig>>))
    ELSE IF NonEmpty(origin_pool, orig) THEN Get(origin_pool, orig)
    ELSE IF NonEmpty(dest_pool, dest) THEN Get(dest_pool, dest)
    ELSE global_pool

\* new_trips.sort(key=lambda x: x[0]): stable, ascending
InsertByDepart(sorted, t) ==
    LET p == Cardinality({i \in 1..Len(sorted) : sorted[i].depart <= t.depart})
    IN  SubSeq(sorted, 1, p) \o <<t>> \o SubSeq(sorted, p + 1, Len(sorted))

RECURSIVE SortedByDepart(_)
SortedByDepart(trips) ==
    IF trips = << >> THEN << >>
    ELSE InsertByDepart(SortedByDepart(SubSeq(trips, 1, Len(trips) - 1)),
                        trips[Len(trips)])

ScalerInit ==
    /\ PipelineIdle
    /\ ClassifierIdle
    /\ ControllerIdle
    /\ KeyerIdle
    /\ st_pc = "load"
    /\ original_trips \in TripFiles
    /\ pool = << >> /\ unclassified = 0
    /\ origin_pool = << >> /\ dest_pool = << >> /\ global_pool = << >>
    /\ nrows = 0
    /\ new_trips = << >> /\ trip_idx = 0 /\ fallback_used = 0

\* lines 47-94: the pool of the original trips and the fallback pools
LoadTrips ==
    /\ st_pc = "load"
    /\ LET built == BuildPool(original_trips, Len(original_trips))
           fb    == FallbackPools(built.pool, Len(built.pool))
       IN  /\ pool' = built.pool
           /\ unclassified' = built.unclassified
           /\ origin_pool' = fb.origin_pool
           /\ dest_pool' = fb.dest_pool
           /\ global_pool' = fb.global_pool
    /\ st_pc' = "resample"
    /\ UNCHANGED <<original_trips, nrows, new_trips, trip_idx, fallback_used>>
    /\ UNCHANGED <<pipeline_vars, classifier_vars, controller_vars, keyer_vars>>

\* lines 103-136 for one row: random.choices over an empty list raises
\* IndexError when n > 0; picks and offs are the random draws.  The trips
\* generated over the rows are capped at MaxGenerated
ResampleRow ==
    /\ st_pc = "resample"
    /\ nrows < MaxRows
    /\ \E row \in OdRows :
          LET n          == row.trips
              candidates == Candidates(row.origin, row.destination)
              exact      == NonEmpty(pool, <<row.origin, row.destination>>)
          IN  /\ fallback_used' = IF exact THEN fallback_used ELSE fallback_used + n
              /\ IF n > 0 /\ candidates = << >>
                 THEN /\ st_pc' = "IndexError"
                      /\ UNCHANGED <<new_trips, trip_idx, nrows>>
                 ELSE /\ trip_idx + n <= MaxGenerated
                      /\ \E picks \in [1..n -> 1..Len(candidates)] :
                         \E offs \in [1..n -> DepartOffsets] :
                            new_trips' = new_trips \o
                               [i \in 1..n |->
                                  [depart |-> row.time_bin + offs[i],
                                   id     |-> trip_idx + i - 1,
                                   vtype  |-> "passenger",
                                   from_e |-> candidates[picks[i]][1],
                                   to_e   |-> candidates[picks[i]][2]]]
                      /\ trip_idx' = trip_idx + n
                      /\ nrows' = nrows + 1
                      /\ UNCHANGED st_pc
    /\ UNCHANGED <<original_trips, pool, unclassified, origin_pool, dest_pool, global_pool>>
    /\ UNCHANGED <<pipeline_vars, classifier_vars, controller_vars, keyer_vars>>

\* lines 141-165: the rows are through; sort by depart and write
WriteTrips ==
    /\ st_pc = "resample"
    /\ new_trips' = SortedByDepart(new_trips)
    /\ st_pc' = "done"
    /\ UNCHANGED <<original_trips, pool, unclassified, origin_pool, dest_pool,
                   global_pool, nrows, trip_idx, fallback_used>>
    /\ UNCHANGED <<pipeline_vars, classifier_vars, controller_vars, keyer_vars>>

ScalerNext == LoadTrips \/ ResampleRow \/ WriteTrips

ScalerSpec == ScalerInit /\ [][ScalerNext]_vars

(***************************************************************************)
(* postprocess.py line 67 on its own: the segment key of a lane attribute. *)
(* The attribute is any non-empty text the pattern lane="([^"]+)" yields,  *)
(* here over a small alphabet.                                             *)
(***************************************************************************)
LaneChars == {"a", "_", "0", "1"}

LaneTexts == UNION {[1..n -> LaneChars] : n \in 1..MaxLaneLen}

KeyerInit ==
    /\ PipelineIdle
    /\ ClassifierIdle
    /\ ControllerIdle
    /\ ScalerIdle
    /\ key_lane \in LaneTexts
    /\ key_edge_id = << >>
    /\ key_done = FALSE

\* edge_id = lm.group(1).rsplit('_', 1)[0]
DeriveKey ==
    /\ ~key_done
    /\ key_edge_id' = EdgeId(key_lane)
    /\ key_done' = TRUE
    /\ UNCHANGED <<key_lane, pipeline_vars, classifier_vars, controller_vars, scaler_vars>>

KeyerNext == DeriveKey

KeyerSpec == KeyerInit /\ [][KeyerNext]_vars

(***************************************************************************)
(* Properties.                                                             *)
(***************************************************************************)
Times(wps) == [i \in 1..Len(wps) |-> wps[i][1]]

StrictlyIncreasing(ts) == \A i \in 1..(Len(ts) - 1) : ts[i] < ts[i + 1]
NonDecreasing(ts)      == \A i \in 1..(Len(ts) - 1) : ts[i] <= ts[i + 1]

Outputs == {deckgl[i] : i \in 1..Len(deckgl)} \cup {pp_deckgl[i] : i \in 1..Len(pp_deckgl)}

\* C1 as stated: with non-decreasing boundary times, the waypoint times of
\* every trajectory written by either producer are strictly increasing.
C1_StrictlyIncreasing ==
    monotone => \A tr \in Outputs : StrictlyIncreasing(Times(tr.waypoints))

\* what the code does keep: with non-decreasing boundary times, the waypoint
\* times of every trajectory written by either producer are non-decreasing.
WaypointTimesNonDecreasing ==
    monotone => \A tr \in Outputs : NonDecreasing(Times(tr.waypoints))

\* both producers have written a trajectory that repeats a time and later
\* moves to a greater one
RepeatedTimeWritten ==
    /\ monotone /\ mk_pc = "done" /\ pp_pc = "done"
    /\ \E tr \in {deckgl[i] : i \in 1..Len(deckgl)} :
          LET ts == Times(tr.waypoints)
          IN  ts[1] = ts[2] /\ ts[1] < ts[Len(ts)]
    /\ \E tr \in {pp_deckgl[i] : i \in 1..Len(pp_deckgl)} :
          LET ts == Times(tr.waypoints)
          IN  ts[1] = ts[2] /\ ts[1] < ts[Len(ts)]

WindowLo == MORNING_START - BUFFER
WindowHi == MORNING_END + BUFFER

AllWaypoints ==
    UNION ( {{e.v[j] : j \in 1..Len(e.v)} : e \in {vehicles[i] : i \in 1..Len(vehicles)}}
       \cup {{e.v[j] : j \in 1..Len(e.v)} : e \in {pp_vehicles[i] : i \in 1..Len(pp_vehicles)}}
       \cup {{tr.waypoints[j] : j \in 1..Len(tr.waypoints)} : tr \in Outputs} )

OutsideWindow(t) == t < 10 * WindowLo \/ t > 10 * WindowHi

\* C2: every waypoint of either producer, accumulated or written, has
\* 25140 <= t <= 32460, and a step taken while the last boundary time is
\* outside that range, or before any boundary line, adds no waypoint.
C2_WithinWindow ==
    /\ [](\A wp \in AllWaypoints : WindowLo <= wp[1] /\ wp[1] <= WindowHi)
    /\ [][OutsideWindow(last_time) =>
            vehicles' = vehicles /\ pp_vehicles' = pp_vehicles]_vars

\* waypoints stand at both ends of the window, the last boundary time is past
\* it, and step 4 is still reading sample lines
C2_Witness ==
    /\ \E wp \in AllWaypoints : wp[1] = WindowLo
    /\ \E wp \in AllWaypoints : wp[1] = WindowHi
    /\ OutsideWindow(last_time) /\ pp4_pc = "scan" /\ ~eof
    /\ TotalWps(pp_full.vehicles) < MaxWaypoints

\* C3 as stated: each producer writes at most MAX_VEHICLES trajectories.
C3_AtMostMax == Len(deckgl) <= MAX_VEHICLES /\ Len(pp_deckgl) <= MAX_VEHICLES

Short(d) == {d[i].k : i \in {j \in 1..Len(d) : Len(d[j].v) < MIN_WAYPOINTS}}
Long(d)  == {d[i].k : i \in {j \in 1..Len(d) : Len(d[j].v) >= MIN_WAYPOINTS}}
Ids(out) == {out[i].id : i \in 1..Len(out)}

\* C4: every written trajectory has at least MIN_WAYPOINTS waypoints and no
\* vehicle that accumulated fewer is in the output.
C4_MinWaypoints ==
    /\ \A tr \in Outputs : Len(tr.waypoints) >= MIN_WAYPOINTS
    /\ mk_pc = "done" => Ids(deckgl) \cap Short(vehicles) = {}
    /\ pp_pc = "done" => Ids(pp_deckgl) \cap Short(pp_vehicles) = {}

\* both producers wrote a trajectory and left a shorter vehicle out
C4_Witness ==
    /\ mk_pc = "done" /\ pp_pc = "done"
    /\ deckgl # << >> /\ pp_deckgl # << >>
    /\ Short(vehicles) # {} /\ Short(pp_vehicles) # {}

\* C5: with non-decreasing boundary times, each trajectory loop with its break
\* holds the same table, and ends in an exception in the same cases, as the
\* loop without the break.
C5_EarlyStopEqualsFullScan ==
    monotone =>
        /\ vehicles = full.vehicles
        /\ (mk_pc = "ValueError") = (full.pc = "ValueError")
        /\ pp_vehicles = pp_full.vehicles
        /\ (pp4_pc = "ValueError") = (pp_full.pc = "ValueError")

\* both loops have left the file at their break with waypoints collected, and
\* the loop without the break has read a later boundary line
C5_Witness ==
    /\ monotone /\ ~eof
    /\ mk_pc \in {"finalize", "done"} /\ vehicles # << >>
    /\ full.pc = "scan" /\ full.cur_time > cur_time
    /\ pp4_pc = "break" /\ pp_vehicles # << >> /\ pp_full.pc = "scan"

\* C6 as stated: no line makes a scan end in an exception.
C6_NeverAborts ==
    mk_pc # "ValueError" /\ pp_pc # "ValueError" /\ pp4_pc # "ValueError"

NLong(d) == Cardinality(Long(d))

\* C7: when more than MAX_VEHICLES vehicles have at least MIN_WAYPOINTS
\* waypoints, make_deckgl.py writes exactly MAX_VEHICLES of them and no
\* vehicle left out has more waypoints than one written.
C7_CapKeepsLongest ==
    (mk_pc = "done" /\ NLong(vehicles) > MAX_VEHICLES) =>
        /\ Len(deckgl) = MAX_VEHICLES
        /\ Cardinality(Ids(deckgl)) = MAX_VEHICLES
        /\ \A tr \in {deckgl[i] : i \in 1..Len(deckgl)} :
              /\ tr.id \in Long(vehicles)
              /\ tr.waypoints = Get(vehicles, tr.id)
              /\ \A vid \in Long(vehicles) \ Ids(deckgl) :
                    Len(Get(vehicles, vid)) <= Len(tr.waypoints)

\* the cap dropped the vehicle seen first, which is shorter than one it kept
C7_Witness ==
    /\ mk_pc = "done" /\ NLong(vehicles) > MAX_VEHICLES
    /\ vehicles[1].k \in Long(vehicles) \ Ids(deckgl)
    /\ \E tr \in {deckgl[i] : i \in 1..Len(deckgl)} :
          Len(vehicles[1].v) < Len(tr.waypoints)

\* C8: when at most MAX_VEHICLES vehicles have at least MIN_WAYPOINTS
\* waypoints, make_deckgl.py writes exactly those vehicles, in the order of the
\* table, each with its waypoints as accumulated.
C8_NoCapBelowMax ==
    (mk_pc = "done" /\ NLong(vehicles) <= MAX_VEHICLES) =>
        LET kept == SelectSeqIdx(vehicles,
                       {i \in 1..Len(vehicles) : Len(vehicles[i].v) >= MIN_WAYPOINTS})
        IN  /\ Len(deckgl) = Len(kept)
            /\ \A i \in 1..Len(kept) :
                  deckgl[i].id = kept[i].k /\ deckgl[i].waypoints = kept[i].v

\* below the cap, with a shorter vehicle filtered out and the first written
\* trajectory shorter than the second
C8_Witness ==
    /\ mk_pc = "done" /\ NLong(vehicles) <= MAX_VEHICLES
    /\ Short(vehicles) # {} /\ Len(deckgl) >= 2
    /\ Len(deckgl[1].waypoints) < Len(deckgl[2].waypoints)

FoldedOf(e) == {s \in BagToSet(folded) : s.edge = e}

RECURSIVE FoldedCount(_)
\* the number of folded samples in a set of distinct samples
FoldedCount(S) ==
    IF S = {} THEN 0
    ELSE LET s == CHOOSE x \in S : TRUE
         IN  CopiesIn(s, folded) + FoldedCount(S \ {s})

RECURSIVE FoldedSum(_)
\* the sum of the km/h speeds of the folded samples in a set, in hundredths
FoldedSum(S) ==
    IF S = {} THEN 0
    ELSE LET s == CHOOSE x \in S : TRUE
         IN  CopiesIn(s, folded) * s.kmh + FoldedSum(S \ {s})

EdgesFolded == {s.edge : s \in BagToSet(folded)}

\* |a - b|
Dist(a, b) == IF a >= b THEN a - b ELSE b - a

\* C9: the keys of both tables are the segments with a folded sample; each
\* count is the number of that segment's folded samples and each sum is the
\* sum of their km/h speeds to six decimal places; once step 2 has run the
\* congestion table has one row for each such segment and no other, with
\* that count and, to the two places it is rounded to, the mean of those
\* samples.
C9_Aggregate ==
    /\ Keys(edge_speed_sum) = EdgesFolded
    /\ Keys(edge_speed_count) = EdgesFolded
    /\ \A e \in EdgesFolded :
          /\ Get(edge_speed_count, e) = FoldedCount(FoldedOf(e))
          /\ PyRound(Get(edge_speed_sum, e), 6) = 10000 * FoldedSum(FoldedOf(e))
    /\ \A i \in 1..Len(rows) : rows[i].edge_id \in EdgesFolded
    /\ pp_pc \in {"step3", "step4", "step5", "done"} =>
          /\ Len(rows) = Cardinality(EdgesFolded)
          /\ \A e \in EdgesFolded :
                \E i \in 1..Len(rows) :
                    /\ rows[i].edge_id = e
                    /\ rows[i].sample_count = FoldedCount(FoldedOf(e))
                    /\ 2 * Dist(rows[i].mean_speed_kmh * FoldedCount(FoldedOf(e)),
                                FoldedSum(FoldedOf(e)))
                          <= FoldedCount(FoldedOf(e))

\* the pipeline is through; one segment folded samples of two speeds, another
\* segment of the network folded none and has no entry and no row
C9_Witness ==
    /\ pp_pc = "done"
    /\ Cardinality(FoldedOf(E_12_0)) = 2
    /\ Get(edge_speed_count, E_12_0) >= 3
    /\ ~Has(edge_speed_count, E_a_b) /\ ~Has(edge_speed_sum, E_a_b)
    /\ Len(rows) = 1

\* C10 as stated: a trace without any aggregated segment still lets the
\* pipeline run to its end; it never stops in step 2 on the empty table.
C10_EmptyIsNotAnError ==
    edge_speed_count = << >> => pp_pc # "AttributeError"

\* a vehicle line that carries a lane and a speed that is a number
IsSample(line) ==
    /\ line.tag = "vehicle"
    /\ ReAny(line.lane) /\ ReNum(line.speed) /\ FloatOK(line.speed)

\* t, in tenths of a second, lies in a peak interval and t mod SAMPLE_EVERY = 0
SampledTime(t) ==
    /\ \/ 10 * MORNING_START <= t /\ t <= 10 * MORNING_END
       \/ 10 * EVENING_START <= t /\ t <= 10 * EVENING_END
    /\ t % (10 * SAMPLE_EVERY) = 0

\* C11 as stated: while step 1 scans, reading a vehicle sample line changes the
\* aggregate tables if and only if the time of the last boundary line parsed
\* lies in a peak interval and is a multiple of SAMPLE_EVERY.
C11_FoldedIffSampledTime ==
    [][pp_pc = "scan" =>
         \A line \in Lines(trace_class) :
            (IsSample(line) /\ ReadLineOf(line)) =>
               ((edge_speed_count' # edge_speed_count) <=> SampledTime(last_time))]_vars

\* what the code does keep: the same with int(t) mod SAMPLE_EVERY = 0
FoldedIffSampleThis ==
    [][pp_pc = "scan" =>
         \A line \in Lines(trace_class) :
            (IsSample(line) /\ ReadLineOf(line)) =>
               ((edge_speed_count' # edge_speed_count) <=> SampleThis(last_time))]_vars

\* a sample was folded in the evening peak, outside the trajectory window
EveningFoldOutsideWindow ==
    /\ last_time = 10 * EVENING_START /\ ~PpInWindow(last_time)
    /\ edge_speed_count # << >> /\ pp_full.vehicles = << >>

\* the thresholds in units of 1e-4 and the colours from the most severe band
\* to the least severe
Thresholds == {2500, 4500, 6000, 7500, 9000}

Bands == << <<204, 0, 0>>, <<255, 68, 0>>, <<255, 136, 0>>, <<255, 187, 0>>,
            <<136, 204, 0>>, <<0, 170, 68>> >>

\* C12: the colour returned for a ratio is the colour of the band numbered by
\* the thresholds that the ratio has reached, so each ratio gets one of six
\* bands, a greater ratio never a more severe one, and a ratio on a threshold
\* the band above it.
C12_Bands ==
    cls_color # << >> =>
        cls_color = Bands[1 + Cardinality({th \in Thresholds : th <= cls_sr})]

\* the ratio 0.25 has been given the colour of the band under 0.45
C12_Witness == cls_sr = 2500 /\ cls_color = <<255, 68, 0>>

\* step 3 has written the features
FeaturesWritten == pp_pc \in {"step4", "step5", "done"}

NetEdges == {net[i] : i \in 1..Len(net)}

\* two points within 5e-5 degrees of each other in longitude and in latitude:
\* the difference of the two doubles, a double itself, is under the double
\* 5e-5
Near(p, q) ==
    \A k \in 1..2 : FLt(FAbs(FSub(FDec(p[k], 5), FDec(q[k], 5))), FDec(5, 5))

\* segment b starts near the end of segment a
NearKnown ==
    [p \in {<<b.id, a.id>> : a \in {e \in NetEdges : e.shape # << >>},
                              b \in {e \in NetEdges : e.shape # << >>}} |->
        Near(NetEdge(p[1]).shape[1], NetEdge(p[2]).shape[Len(NetEdge(p[2]).shape)])]
StartsNear(b, a) ==
    Lookup(NearKnown, <<b.id, a.id>>, Near(b.shape[1], a.shape[Len(a.shape)]))

\* a and b are consecutive segments of one group, both aggregated
Consecutive(a, b) ==
    /\ ~startswith(a.id, ":") /\ ~startswith(b.id, ":")
    /\ GroupKey(a) = GroupKey(b)
    /\ seg_num(a.id) + 1 = seg_num(b.id)
    /\ InCongestion(rows, a.id) /\ InCongestion(rows, b.id)

\* the features whose line starts where segment a starts
FeaturesFrom(a) ==
    {i \in 1..Len(features) :
        /\ features[i].n_lanes = a.lanes
        /\ features[i].coordinates[1] = a.shape[1]}

\* C13: the line merged from two consecutive segments a and b has
\* length(a) + length(b) - 1 points, b's first point dropped, when b starts
\* within 5e-5 degrees of a's end, and length(a) + length(b) points otherwise.
C13_MergedLength ==
    FeaturesWritten =>
        \A a, b \in NetEdges :
            Consecutive(a, b) =>
                /\ FeaturesFrom(a) # {}
                /\ \A i \in FeaturesFrom(a) :
                      IF StartsNear(b, a)
                      THEN /\ Len(features[i].coordinates) = Len(a.shape) + Len(b.shape) - 1
                           /\ features[i].coordinates = a.shape \o Tail(b.shape)
                      ELSE /\ Len(features[i].coordinates) = Len(a.shape) + Len(b.shape)
                           /\ features[i].coordinates = a.shape \o b.shape

\* both cases in one run: 12#1 starts 2e-5 degrees from the end of 12#0 and
\* its first point is dropped; 56#1 starts 4e-5 east and 5e-5 north of the end
\* of 56#0 and keeps its first point.  34#1 starts 5e-5 east of the end of
\* 34#0: 28.84705 - 28.847 is under 5e-5 in doubles, the point is dropped
C13_Witness ==
    /\ FeaturesWritten
    /\ Consecutive(NetEdge(E_12_0), NetEdge(E_12_1))
    /\ Consecutive(NetEdge(E_34_0), NetEdge(E_34_1))
    /\ Consecutive(NetEdge(E_56_0), NetEdge(E_56_1))
    /\ \E i \in FeaturesFrom(NetEdge(E_12_0)) : Len(features[i].coordinates) = 3
    /\ \E i \in FeaturesFrom(NetEdge(E_34_0)) : Len(features[i].coordinates) = 4
    /\ \E i \in FeaturesFrom(NetEdge(E_56_0)) : Len(features[i].coordinates) = 4

\* a is the first segment of a group that step 3 emits
GroupHead(a) ==
    /\ ~startswith(a.id, ":") /\ InCongestion(rows, a.id)
    /\ \A b \in NetEdges :
          (GroupKey(b) = GroupKey(a) /\ InCongestion(rows, b.id)) =>
              seg_num(a.id) <= seg_num(b.id)

GroupHeads == {a \in NetEdges : GroupHead(a)}

RECURSIVE LaneTotal(_)
LaneTotal(S) ==
    IF S = {} THEN 0
    ELSE LET a == CHOOSE x \in S : TRUE IN a.lanes + LaneTotal(S \ {a})

\* C14: a group of n lanes has exactly n features, one after the other, the
\* i-th (from 0) offset by (i - (n-1)/2) * 3.2, so the offsets of features i
\* and n-1-i are opposite; a group of one lane has one feature, not offset.
\* There are no other features.
C14_LaneFeatures ==
    FeaturesWritten =>
        /\ Len(features) = LaneTotal(GroupHeads)
        /\ \A a \in GroupHeads :
              LET F == FeaturesFrom(a)
                  n == a.lanes
              IN  /\ Cardinality(F) = n
                  /\ \E first \in F :
                        /\ F = first..(first + n - 1)
                        /\ \A i \in 0..(n - 1) :
                              /\ 10 * features[first + i].offset = (2 * i - (n - 1)) * 160
                              /\ features[first + i].offset =
                                    -features[first + n - 1 - i].offset
                              /\ features[first + i].coordinates =
                                    features[first].coordinates
                  /\ n = 1 => \A i \in F : features[i].offset = 0

\* groups of one, two and three lanes have been emitted together
C14_Witness ==
    /\ FeaturesWritten
    /\ {a.lanes : a \in GroupHeads} = {1, 2, 3}
    /\ \E i \in 1..Len(features) : features[i].n_lanes = 3 /\ features[i].offset = -32
    /\ \E i \in 1..Len(features) : features[i].n_lanes = 3 /\ features[i].offset = 32

\* the aggregated segments of the group of segment a
AggregatedOf(a) ==
    {b \in NetEdges : ~startswith(b.id, ":") /\ GroupKey(b) = GroupKey(a)
                      /\ InCongestion(rows, b.id)}

PointsOf(shape) == {shape[i] : i \in 1..Len(shape)}

RECURSIVE SumOver(_, _)
\* the sum over the segments S of the row field chosen by what, times length:
\* lengths in tenths of m, ratios in units of 1e-4, flows in tenths
SumOver(S, what) ==
    IF S = {} THEN 0
    ELSE LET b == CHOOSE x \in S : TRUE
             w == CASE what = "length" -> 1
                    [] what = "sr"     -> RowOf(rows, b.id).mean_speed_rel
                    [] what = "flow"   -> RowOf(rows, b.id).peak_flow
         IN  w * b.length + SumOver(S \ {b}, what)

\* C15: the features of a group are made of the aggregated segments of the
\* group alone: every point of their line is a point of such a segment and
\* each such segment reaches it, their ratio is the length-weighted mean over
\* those segments to the three places it is rounded to and their flow the
\* whole part of the length-weighted mean; no point of a segment without an
\* entry in the aggregate table is on any feature, and a group none of whose
\* segments has an entry has no feature.
C15_AggregatedSegmentsOnly ==
    FeaturesWritten =>
        /\ \A a \in GroupHeads :
              LET S == AggregatedOf(a)
                  W == SumOver(S, "length")
              IN  \A i \in FeaturesFrom(a) :
                    /\ PointsOf(features[i].coordinates)
                          \subseteq UNION {PointsOf(b.shape) : b \in S}
                    /\ \A b \in S :
                          b.shape[Len(b.shape)] \in PointsOf(features[i].coordinates)
                    /\ 2 * Dist(features[i].speed_ratio * 10 * W, SumOver(S, "sr"))
                          <= 10 * W
                    /\ features[i].peak_flow * 10 * W <= SumOver(S, "flow")
                    /\ SumOver(S, "flow") <= (features[i].peak_flow + 1) * 10 * W
        /\ \A e \in NetEdges :
              (~startswith(e.id, ":") /\ ~InCongestion(rows, e.id)) =>
                  \A i \in 1..Len(features) :
                      PointsOf(e.shape) \cap PointsOf(features[i].coordinates) = {}
        /\ \A e \in NetEdges :
              (~startswith(e.id, ":") /\ AggregatedOf(e) = {}) =>
                  \A i \in 1..Len(features) :
                      features[i].n_lanes # e.lanes
                      \/ PointsOf(features[i].coordinates) \cap PointsOf(e.shape) = {}

\* 12#0 is aggregated and 12#1 is not: the group's features carry the two
\* points and the ratio of 12#0; no segment of group 34 is aggregated and no
\* feature has three lanes
C15_Witness ==
    /\ FeaturesWritten
    /\ InCongestion(rows, E_12_0) /\ ~InCongestion(rows, E_12_1)
    /\ AggregatedOf(NetEdge(E_34_0)) = {}
    /\ \E i \in FeaturesFrom(NetEdge(E_12_0)) :
          /\ features[i].coordinates = NetEdge(E_12_0).shape
          /\ 2 * Dist(10 * features[i].speed_ratio, RowOf(rows, E_12_0).mean_speed_rel) <= 10
    /\ \A i \in 1..Len(features) : features[i].n_lanes # 3

ReportWritten == pp_pc = "done"

\* the aggregated segments of the network whose first shape vertex lies in the
\* box of corridor c, the bounds of the box included
MatchingSegments(c) ==
    {e \in NetEdges :
        /\ Has(edge_speed_count, e.id)
        /\ c.lon0 <= e.shape[1][1] /\ e.shape[1][1] <= c.lon1
        /\ c.lat0 <= e.shape[1][2] /\ e.shape[1][2] <= c.lat1}

RECURSIVE SpeedSum(_)
\* the sum of the mean speeds of the segments S, in hundredths of km/h
SpeedSum(S) ==
    IF S = {} THEN 0
    ELSE LET b == CHOOSE x \in S : TRUE
         IN  RowOf(rows, b.id).mean_speed_kmh + SpeedSum(S \ {b})

\* the mean speeds of the table, in its order, of the segments S, in
\* hundredths of km/h
RECURSIVE SpeedsOf(_, _)
SpeedsOf(S, n) ==
    IF n = 0 THEN << >>
    ELSE IF \E b \in S : b.id = rows[n].edge_id
         THEN Append(SpeedsOf(S, n - 1), rows[n].mean_speed_kmh)
         ELSE SpeedsOf(S, n - 1)

\* the mean of the speeds over the reference speed of corridor c, as doubles
MeanOverReference(speeds, c) ==
    FDiv(FDiv(FSum([i \in 1..Len(speeds) |-> FDec(speeds[i], 2)]), FInt(Len(speeds))),
         FDec(c.google, 1))
ComputedKnown == [q \in DOMAIN StatusKnown |-> MeanOverReference(q[1], q[2])]

\* the ratio the validator computes for corridor c: the mean of the mean
\* speeds of its matching segments over its reference speed
ComputedRatio(c) ==
    LET speeds == SpeedsOf(MatchingSegments(c), Len(rows))
    IN  Lookup(ComputedKnown, <<speeds, c>>, MeanOverReference(speeds, c))

\* C16: for every corridor with a matching segment the reported status is
\* GOOD ("good") iff ratio < 1.5, HIGH ("needs tuning") iff
\* 1.5 <= ratio < 2.5, and TOO FAST ("model under-congests") iff
\* ratio >= 2.5, the ratio being the one the validator computes: mean over
\* the matching segments / reference.
C16_RatioThresholds ==
    ReportWritten =>
        \A i \in 1..Len(ground_truth) :
            LET S     == MatchingSegments(ground_truth[i])
                ratio == ComputedRatio(ground_truth[i])
            IN  S # {} =>
                  /\ report[i].name = ground_truth[i].name
                  /\ report[i].status = "GOOD" <=> FLt(ratio, Lit1_5)
                  /\ report[i].status = "HIGH" <=>
                         (FLe(Lit1_5, ratio) /\ FLt(ratio, Lit2_5))
                  /\ report[i].status = "TOO FAST" <=> FLe(Lit2_5, ratio)

\* one segment matches the first corridor at twice its reference speed (17.2
\* against 8.6 km/h) and the corridor is reported HIGH, while the last corridor
\* holds the same segment and is reported GOOD
C16_Witness ==
    /\ ReportWritten
    /\ MatchingSegments(ground_truth[1]) = {NetEdge(E_12_0)}
    /\ RowOf(rows, E_12_0).mean_speed_kmh = 20 * ground_truth[1].google
    /\ ComputedRatio(ground_truth[1]) = FInt(2)
    /\ report[1].status = "HIGH"
    /\ report[6].status = "GOOD"

\* corridor i has a mean that is k/10 times its reference as decimals and is
\* reported with status
OnThreshold(k, i, status) ==
    /\ ReportWritten
    /\ LET S == MatchingSegments(ground_truth[i])
       IN  S # {} /\ SpeedSum(S) = k * Cardinality(S) * ground_truth[i].google
    /\ report[i].status = status

\* 12.9 / 8.6 is the double 1.5 and 21.5 / 8.6 the double 2.5: HIGH and TOO
\* FAST
OnLowerThreshold == OnThreshold(15, 1, "HIGH")
OnUpperThreshold == OnThreshold(25, 1, "TOO FAST")

\* 13.2 / 8.8 is the double under 1.5: GOOD
UnderLowerThreshold == OnThreshold(15, 3, "GOOD")

\* what the validator does once it runs: a corridor is reported NO DATA
\* exactly when no aggregated segment starts in its box
NoDataIffNoMatch ==
    ReportWritten =>
        /\ Len(report) = Len(ground_truth)
        /\ \A i \in 1..Len(ground_truth) :
              report[i].status = "NO DATA" <=> MatchingSegments(ground_truth[i]) = {}

\* a segment starting on the corner of a box counts for it, one a unit west
\* of the box does not
CornerCounts ==
    /\ ReportWritten
    /\ MatchingSegments(ground_truth[3]) = {NetEdge(E_34_0)}
    /\ Has(edge_speed_count, E_56_0)
    /\ NetEdge(E_34_0).shape[1] = <<ground_truth[3].lon0, ground_truth[3].lat0>>
    /\ NetEdge(E_56_0).shape[1] = <<ground_truth[3].lon0 - 1, ground_truth[3].lat0>>

\* no corridor has a matching segment, all six are reported NO DATA
AllNoData ==
    /\ ReportWritten
    /\ edge_speed_count # << >>
    /\ \A i \in 1..Len(ground_truth) : report[i].status = "NO DATA"

\* C17 as stated: each corridor is rated over the aggregated segments that
\* start in its box and reported NO DATA when there is none, and a run in which
\* no corridor has a matching segment still completes: it never stops in an
\* exception before its report.
C17_NoDataAndCompletes ==
    /\ NoDataIffNoMatch
    /\ (\A i \in 1..Len(ground_truth) : MatchingSegments(ground_truth[i]) = {})
          => pp_pc # "AttributeError"

\* the time the current phase of junction jid has been green when the last
\* call of step returned
GreenAfterStep(jid) == (step - 1) - Get(phase_start, jid)

JunctionIds == {intersection_ids[i] : i \in 1..Len(intersection_ids)}

\* C18 as stated: after every call of step, for every intersection, the time
\* since the recorded start of the current phase is at most max_green.
C18_NeverExceedsMaxGreen ==
    initialized => \A jid \in JunctionIds : GreenAfterStep(jid) <= max_green

\* what the code does keep: a traffic light TraCI knows is switched no later
\* than at max_green when max_green is a multiple of control_interval
MaxGreenKeptWhenSwitchable ==
    (initialized /\ max_green % control_interval = 0) =>
        \A jid \in JunctionIds : TlsKnown(jid) => GreenAfterStep(jid) < max_green

\* a known traffic light was forced on to its next phase at max_green
ForcedSwitch ==
    /\ initialized /\ max_green = 60 /\ step = 61
    /\ "J1" \in JunctionIds
    /\ Get(phase_start, "J1") = 60 /\ Get(current_phase, "J1") = 1

\* an id TraCI does not know has been green past max_green
UnknownStaysGreen ==
    /\ initialized /\ max_green = 60
    /\ "J9" \in JunctionIds /\ GreenAfterStep("J9") > max_green

\* the phases of junction jid and the lanes phase P serves: link idx belongs
\* to phase idx % n
PhasesOf(jid) == {pm.k : pm \in {Get(phase_lanes, jid)[i] : i \in 1..Len(Get(phase_lanes, jid))}}
LinksOf(jid, P) ==
    IF ~TlsKnown(jid) THEN {}
    ELSE UNION {{ControlledLinks(jid)[m][i] : i \in 1..Len(ControlledLinks(jid)[m])} :
                  m \in {k \in 1..Len(ControlledLinks(jid)) : (k - 1) % TlsPhases(jid) = P}}

RECURSIVE Waiting(_, _)
\* the vehicles waiting on the lanes L
Waiting(L, h) ==
    IF L = {} THEN 0
    ELSE LET l == CHOOSE x \in L : TRUE IN h[l] + Waiting(L \ {l}, h)

queue_in(jid, P, h)  == Waiting({ln.incoming : ln \in LinksOf(jid, P)}, h)
queue_out(jid, P, h) == Waiting({ln.outgoing : ln \in LinksOf(jid, P)}, h)

\* pressure(P) = queue_in(P) - queue_out(P)
Pressure(jid, P, h) == queue_in(jid, P, h) - queue_out(jid, P, h)

\* junction jid is at a control step with its phase green for at least
\* min_green and less than max_green
MayChoose(jid) ==
    /\ initialized /\ step % control_interval = 0
    /\ min_green <= step - Get(phase_start, jid)
    /\ step - Get(phase_start, jid) < max_green

\* C19 as stated: at such a step, when the pressure of the current phase is
\* below the largest pressure of the junction's phases, the call leaves a
\* phase of the largest pressure current, started at this step.
C19_SwitchToHighestPressure ==
    [][\A h \in Haltings :
          (initialized /\ StepWith(h)) =>
             \A jid \in JunctionIds :
                (/\ MayChoose(jid)
                 /\ \E P \in PhasesOf(jid) :
                       Pressure(jid, Get(current_phase, jid), h) < Pressure(jid, P, h))
                => /\ \A P \in PhasesOf(jid) :
                         Pressure(jid, P, h) <= Pressure(jid, Get(current_phase', jid), h)
                   /\ Get(phase_start', jid) = step]_vars

\* what the code does keep: at such a step a known traffic light changes phase
\* exactly when the largest queue_in exceeds the current phase's queue_in by
\* pressure_threshold or more (and by something), and then to a phase of the
\* largest queue_in
SwitchOnQueueInThreshold ==
    [][\A h \in Haltings :
          (initialized /\ StepWith(h)) =>
             \A jid \in JunctionIds :
                (MayChoose(jid) /\ TlsKnown(jid)) =>
                   LET cur == Get(current_phase, jid)
                       new == Get(current_phase', jid)
                       far == \E P \in PhasesOf(jid) :
                                 /\ queue_in(jid, P, h) > queue_in(jid, cur, h)
                                 /\ queue_in(jid, P, h) - queue_in(jid, cur, h)
                                       >= pressure_threshold
                   IN  /\ (new # cur) <=> far
                       /\ (Get(phase_start', jid) = step) <=> far
                       /\ far => \A P \in PhasesOf(jid) :
                                    queue_in(jid, P, h) <= queue_in(jid, new, h)]_vars

\* a junction changed phase on pressure, before max_green
SwitchedOnPressure ==
    /\ initialized /\ min_green = 25
    /\ "J1" \in JunctionIds
    /\ Get(current_phase, "J1") = 2 /\ Get(phase_start, "J1") = 30

OriginalPairs == {original_trips[i] : i \in 1..Len(original_trips)}

\* the original pairs both of whose edges lie in a district
ClassifiedPairs ==
    {pr \in OriginalPairs : DistrictOf(pr[1]) # None /\ DistrictOf(pr[2]) # None}

GeneratedPairs == {<<new_trips[i].from_e, new_trips[i].to_e>> : i \in 1..Len(new_trips)}

\* C20 as stated: the (from, to) pair of every generated trip is the pair of
\* an original trip.
C20_ReusesOriginalPairs == GeneratedPairs \subseteq OriginalPairs

\* what the code does keep: every generated pair is a classified original
\* pair or such a pair with its ends swapped
ReusedOrSwapped ==
    GeneratedPairs \subseteq
        ClassifiedPairs \cup {<<pr[2], pr[1]>> : pr \in ClassifiedPairs}

\* the trips are written and one runs from b1 to c1 although the only original
\* trip runs from c1 to b1
SwappedPairWritten ==
    /\ st_pc = "done"
    /\ original_trips = << <<"c1", "b1">> >>
    /\ <<"b1", "c1">> \in GeneratedPairs

\* of two rows one generated a trip, taken from a fallback pool and departing
\* 25 s into the time bin
FallbackPoolsUsed ==
    /\ st_pc = "done" /\ nrows = 2 /\ fallback_used = 1 /\ trip_idx = 1
    /\ \E i \in 1..Len(new_trips) : new_trips[i].depart = 25200 + 25
    /\ original_trips = << <<"c1", "b1">>, <<"b2", "b1">> >>
    /\ GeneratedPairs = { <<"b2", "b1">> }

\* a text that is a decimal number: digits, at most one dot, a digit at least
IsNumber(s) ==
    /\ Len(s) > 0
    /\ \A i \in 1..Len(s) : s[i] \in Digits \cup {"."}
    /\ Cardinality({i \in 1..Len(s) : s[i] = "."}) <= 1
    /\ \E i \in 1..Len(s) : s[i] \in Digits

\* a vehicle line without an id or without a number for x, y or speed
MalformedForTrajectory(line) ==
    /\ line.tag = "vehicle"
    /\ ~(Len(line.id) > 0 /\ IsNumber(line.x) /\ IsNumber(line.y) /\ IsNumber(line.speed))

\* a vehicle line without a lane or without a number for speed
MalformedForAggregation(line) ==
    /\ line.tag = "vehicle"
    /\ ~(Len(line.lane) > 0 /\ IsNumber(line.speed))

\* C21 as stated: a vehicle line that is malformed for a loop leaves that
\* loop's table, its time cursor and its position in the scan as they were, so
\* the lines around it are handled as if it were not in the file.
C21_MalformedSampleIsSkipped ==
    [][\A line \in Lines(trace_class) :
          ReadLineOf(line) =>
             /\ MalformedForTrajectory(line) =>
                   UNCHANGED <<mk_pc, cur_time, in_window, vehicles,
                               pp4_pc, pp_cur_time, pp_vehicles>>
             /\ MalformedForAggregation(line) =>
                   UNCHANGED <<pp_pc, current_time, in_peak, sample_this,
                               edge_speed_sum, edge_speed_count>>]_vars

\* what the code does keep: a vehicle line one of whose attributes no pattern
\* extracts is skipped by the loop that needs the attribute
UnmatchedSampleIsSkipped ==
    [][\A line \in Lines(trace_class) :
          (line.tag = "vehicle" /\ ReadLineOf(line)) =>
             /\ ~SampleMatches(line) =>
                   UNCHANGED <<mk_pc, cur_time, in_window, vehicles,
                               pp4_pc, pp_cur_time, pp_vehicles>>
             /\ ~(ReAny(line.lane) /\ ReNum(line.speed)) =>
                   UNCHANGED <<pp_pc, current_time, in_peak, sample_this,
                               edge_speed_sum, edge_speed_count>>]_vars

\* a sample was skipped by the trajectory loops and folded by step 1, and a
\* later sample of the same timestep was appended by all
SkippedThenAppended ==
    /\ trace_class = "malformed"
    /\ mk_pc = "scan" /\ pp4_pc = "scan" /\ pp_pc = "scan"
    /\ BagCardinality(folded) = 2
    /\ TotalWps(vehicles) = 1 /\ TotalWps(pp_vehicles) = 1

\* a sample whose y is "." ended the trajectory scans with the vehicle's key
\* created and no waypoint
AbortedOnSample ==
    /\ mk_pc = "ValueError" /\ pp4_pc = "ValueError" /\ pp_pc = "scan"
    /\ Has(vehicles, V1) /\ TotalWps(vehicles) = 0

\* a lane index: one or more digits
IsLaneIndex(s) == Len(s) > 0 /\ \A i \in 1..Len(s) : s[i] \in Digits

\* C22: whenever the lane attribute is seg, an underscore and a lane index, the
\* key derived is seg, whatever underscores seg itself holds; so the lanes of
\* one segment share their key.
C22_KeyIsSegmentId ==
    key_done =>
        \A p \in 1..Len(key_lane) :
            (key_lane[p] = "_" /\ IsLaneIndex(SubSeq(key_lane, p + 1, Len(key_lane))))
                => key_edge_id = SubSeq(key_lane, 1, p - 1)

\* the lane a_a_1 of the segment a_a gave the key a_a
C22_Witness ==
    /\ key_done
    /\ key_lane = <<"a", "_", "a", "_", "1">>
    /\ key_edge_id = <<"a", "_", "a">>

\* a segment that is not internal and has a row in the aggregate table
Aggregated(a) == ~startswith(a.id, ":") /\ InCongestion(rows, a.id)

\* the last point of a segment's shape: merging never drops it
EndOf(a) == a.shape[Len(a.shape)]

\* segments a and b lie on one feature line
Together(a, b) ==
    \E i \in 1..Len(features) :
        /\ EndOf(a) \in PointsOf(features[i].coordinates)
        /\ EndOf(b) \in PointsOf(features[i].coordinates)

\* an id whose first character after an optional '-' is a digit
HasNumericPrefix(eid) ==
    \/ eid # << >> /\ eid[1] \in Digits
    \/ Len(eid) >= 2 /\ eid[1] = "-" /\ eid[2] \in Digits

\* the id with its split suffix stripped: what precedes the first '#'; an id
\* without a numeric prefix is its own base
StrippedId(eid) ==
    IF HasNumericPrefix(eid) /\ \E p \in 1..Len(eid) : eid[p] = "#"
    THEN LET p == CHOOSE q \in 1..Len(eid) :
                     eid[q] = "#" /\ \A j \in 1..(q - 1) : eid[j] # "#"
         IN  SubSeq(eid, 1, p - 1)
    ELSE eid

\* the base id without its direction sign
Unsigned(eid) == IF startswith(eid, "-") /\ HasNumericPrefix(eid) THEN Tail(eid) ELSE eid

SameRoad(a, b) ==
    /\ Unsigned(StrippedId(a.id)) = Unsigned(StrippedId(b.id))
    /\ a.lanes = b.lanes
    /\ startswith(a.id, "-") = startswith(b.id, "-")

\* C23: two aggregated segments that are not internal are in the same group,
\* that is on the same feature line, if and only if they have the same base
\* id (the id without its split suffix, the id itself when it has no numeric
\* prefix), the same number of lanes and the same direction sign.
C23_SameGroupIff ==
    FeaturesWritten =>
        \A a, b \in NetEdges :
            (Aggregated(a) /\ Aggregated(b)) =>
                (Together(a, b) <=> SameRoad(a, b))

\* the three parts of the key each separate two segments in one run: 12#0
\* and 12#1 are together, -12#0 (direction), 12#2 (lanes) and 34#0 (base)
\* are apart from 12#0, and a_b is a group of its own
C23_Witness ==
    /\ FeaturesWritten
    /\ \A eid \in {E_12_0, E_12_1, E_m12_0, E_12_2, E_34_0, E_a_b} :
          Aggregated(NetEdge(eid))
    /\ Together(NetEdge(E_12_0), NetEdge(E_12_1))
    /\ ~Together(NetEdge(E_12_0), NetEdge(E_m12_0))
    /\ ~Together(NetEdge(E_12_0), NetEdge(E_12_2))
    /\ ~Together(NetEdge(E_12_0), NetEdge(E_34_0))
    /\ Together(NetEdge(E_a_b), NetEdge(E_a_b))

\* the place of point pt on a line that holds it once
PlaceOf(line, pt) == CHOOSE i \in 1..Len(line) : line[i] = pt

\* every point of segment a on the line comes before every point of b on it
Precedes(line, a, b) ==
    \A p \in PointsOf(a.shape) \cap PointsOf(line),
       q \in PointsOf(b.shape) \cap PointsOf(line) :
          PlaceOf(line, p) < PlaceOf(line, q)

\* C24: of two aggregated segments on one feature line, the one with the
\* smaller split index (the digits after a trailing '#', 0 without them) has
\* its points first, whatever the order of the two in the network.
C24_OrderedBySplitIndex ==
    FeaturesWritten =>
        \A i \in 1..Len(features) :
            \A a, b \in NetEdges :
                ( /\ Aggregated(a) /\ Aggregated(b)
                  /\ EndOf(a) \in PointsOf(features[i].coordinates)
                  /\ EndOf(b) \in PointsOf(features[i].coordinates)
                  /\ seg_num(a.id) < seg_num(b.id) ) =>
                    Precedes(features[i].coordinates, a, b)

\* the place of a segment in the listing of the network
ListedAt(eid) == CHOOSE i \in 1..Len(net) : net[i].id = eid

\* 12#1 and 56#1 are listed before 12#0 and 56#0, 34#0 before 34#1, and in
\* each line the points of #0 come first
C24_Witness ==
    /\ FeaturesWritten
    /\ ListedAt(E_12_1) < ListedAt(E_12_0)
    /\ ListedAt(E_56_1) < ListedAt(E_56_0)
    /\ ListedAt(E_34_0) < ListedAt(E_34_1)
    /\ \E i \in 1..Len(features) :
          features[i].coordinates =
              NetEdge(E_12_0).shape \o Tail(NetEdge(E_12_1).shape)
    /\ \E i \in 1..Len(features) :
          features[i].coordinates = NetEdge(E_56_0).shape \o NetEdge(E_56_1).shape
    /\ \E i \in 1..Len(features) :
          features[i].coordinates =
              NetEdge(E_34_0).shape \o Tail(NetEdge(E_34_1).shape)

\* the speed ratio and the flow of the row of a segment, as the doubles the
\* table holds
RatioOf(b) == FDec(RowOf(rows, b.id).mean_speed_rel, 4)
FlowOf(b)  == FDec(RowOf(rows, b.id).peak_flow, 1)

\* the double q lies between the least and the greatest of what(b), b in S
Between(q, S, what(_)) ==
    /\ \E b \in S : FLe(what(b), q)
    /\ \E b \in S : FLe(q, what(b))

\* the double q is num / den to five decimal places
Quotient(q, num, den) == Dist(PyRound(q, 5) * den, num) <= den

\* the weighted means of every emitted group are the sums over its
\* aggregated segments of ratio times length, and of flow times length, over
\* the sum of their lengths, which is positive
WeightedMeans ==
    FeaturesWritten =>
        \A a \in GroupHeads :
            LET S == AggregatedOf(a)
                W == SumOver(S, "length")
            IN  \A i \in FeaturesFrom(a) :
                    /\ W > 0
                    /\ Quotient(features[i].avg_sr, 10 * SumOver(S, "sr"), W)
                    /\ Quotient(features[i].avg_flow, 10000 * SumOver(S, "flow"), W)

\* the ratio and the flow of every emitted group lie between the least and
\* the greatest of its segments
MeansBetween ==
    FeaturesWritten =>
        \A a \in GroupHeads :
            \A i \in FeaturesFrom(a) :
                /\ Between(features[i].avg_sr, AggregatedOf(a), RatioOf)
                /\ Between(features[i].avg_flow, AggregatedOf(a), FlowOf)

\* a group of one segment has the ratio, the flow and the colour of that
\* segment
SingleReportsOwn ==
    FeaturesWritten =>
        \A a \in GroupHeads :
            \A b \in AggregatedOf(a) :
                AggregatedOf(a) = {b} =>
                    \A i \in FeaturesFrom(a) :
                        /\ features[i].avg_sr = RatioOf(b)
                        /\ features[i].avg_flow = FlowOf(b)
                        /\ features[i].color = sr_to_color(RatioOf(b))

\* C25 as stated: for every emitted group the speed ratio is the sum of ratio
\* times length over the sum of the lengths of its aggregated segments, and
\* likewise the flow; the script never stops on a division by zero; the
\* ratio lies between the least and the greatest ratio of the segments, and
\* a group of one segment has the ratio and the flow of that segment.
C25_LengthWeightedMean ==
    /\ pp_pc # "ZeroDivisionError"
    /\ WeightedMeans
    /\ MeansBetween
    /\ SingleReportsOwn

\* what the code does keep: the weighted means to five decimal places, no
\* division by zero, and a single segment's ratio to the three places the
\* feature carries
MeansWithinTolerance ==
    /\ pp_pc # "ZeroDivisionError"
    /\ WeightedMeans
    /\ FeaturesWritten =>
          \A a \in GroupHeads :
              \A b \in AggregatedOf(a) :
                  AggregatedOf(a) = {b} =>
                      \A i \in FeaturesFrom(a) :
                          2 * Dist(10 * features[i].speed_ratio,
                                   RowOf(rows, b.id).mean_speed_rel) <= 10

\* a_b, 9 m long, is a group of its own with the ratio 0.9; its feature has a
\* ratio under 0.9 and the colour of the band under 0.90
SingleBelowOwn ==
    /\ FeaturesWritten
    /\ AggregatedOf(NetEdge(E_a_b)) = {NetEdge(E_a_b)}
    /\ RowOf(rows, E_a_b).mean_speed_rel = 9000
    /\ \E i \in FeaturesFrom(NetEdge(E_a_b)) :
          /\ FLt(features[i].avg_sr, RatioOf(NetEdge(E_a_b)))
          /\ features[i].speed_ratio = 900
          /\ features[i].color = <<136, 204, 0>>
          /\ sr_to_color(RatioOf(NetEdge(E_a_b))) = <<0, 170, 68>>

\* one run emits the group of 12#0 (50 m, ratio 0.2578) and 12#1 (100 m,
\* ratio 0.4297), whose ratio is strictly between the two and above their
\* plain mean, and the group of 56#0 and 56#1 with flows 1.0 and 0.2
WeightedStrictlyBetween ==
    /\ FeaturesWritten
    /\ AggregatedOf(NetEdge(E_12_0)) = {NetEdge(E_12_0), NetEdge(E_12_1)}
    /\ FLt(RatioOf(NetEdge(E_12_0)), RatioOf(NetEdge(E_12_1)))
    /\ \E i \in FeaturesFrom(NetEdge(E_12_0)) :
          LET q == features[i].avg_sr
          IN  /\ FLt(RatioOf(NetEdge(E_12_0)), q)
              /\ FLt(q, RatioOf(NetEdge(E_12_1)))
              /\ FLt(FDiv(FAdd(RatioOf(NetEdge(E_12_0)), RatioOf(NetEdge(E_12_1))),
                           FInt(2)), q)
    /\ AggregatedOf(NetEdge(E_56_0)) = {NetEdge(E_56_0), NetEdge(E_56_1)}
    /\ \E i \in FeaturesFrom(NetEdge(E_56_0)) :
          LET q == features[i].avg_flow
          IN  /\ FLt(FlowOf(NetEdge(E_56_1)), q)
              /\ FLt(q, FlowOf(NetEdge(E_56_0)))

\* the recorded phase and phase start of jid before the step: those of
\* _initialize when the step is the first
PhaseBefore(jid) == IF initialized THEN Get(current_phase, jid) ELSE 0
StartBefore(jid) == IF initialized THEN Get(phase_start, jid) ELSE 0

\* C26: a step at time t that changes the recorded phase or phase start of
\* an intersection has t a multiple of control_interval and
\* t - phase_start >= min_green, phase_start being the start recorded before
\* the step; a step at any other time leaves the phase, the phase start and
\* the phase map of every intersection as they were.
C26_NeverBeforeMinGreen ==
    [][ /\ \A jid \in JunctionIds :
              ( \/ Get(current_phase', jid) # PhaseBefore(jid)
                \/ Get(phase_start', jid) # StartBefore(jid) ) =>
                  /\ step % control_interval = 0
                  /\ step - StartBefore(jid) >= min_green
                  /\ Get(phase_start', jid) = step
        /\ step % control_interval # 0 =>
              UNCHANGED <<current_phase, phase_start, phase_lanes>> ]_vars

\* J1 was switched on pressure exactly min_green after the start of its
\* first phase, and steps off the control interval have followed
C26_Witness ==
    /\ initialized /\ min_green = 10
    /\ "J1" \in JunctionIds
    /\ Get(phase_start, "J1") = min_green /\ Get(current_phase, "J1") # 0
    /\ step % control_interval = 3

\* setPhase is called for jid in this step and raises: an id TraCI does not
\* know has no lanes, so the only switch asked for it is the forced one
Rejected(jid) ==
    /\ step % control_interval = 0
    /\ ~TlsKnown(jid)
    /\ step - StartBefore(jid) >= min_green
    /\ step - StartBefore(jid) >= max_green

\* a traffic light TraCI knows whose phase has lasted max_green at a control
\* step: its switch is forced and accepted
DueForSwitch(jid) ==
    /\ step % control_interval = 0
    /\ TlsKnown(jid)
    /\ step - StartBefore(jid) >= min_green
    /\ step - StartBefore(jid) >= max_green

\* what _control_intersection makes of intersection jid alone, from the
\* state before the step
ControlledAlone(jid, h) ==
    control_intersection([cp |-> current_phase, ps |-> phase_start, pl |-> phase_lanes],
                         jid, step, h)

\* C30: in a step where setPhase raises for an intersection, the recorded
\* phase and phase start of that intersection stay as they were, the step
\* returns and the loop goes on to the next time, and every intersection
\* listed after it is controlled in that same step as it would be alone: its
\* new phase and start are what _control_intersection gives for some halting
\* counts, the forced switch when its phase has lasted max_green.
C30_RejectedSwitchIsContained ==
    [][\A i \in 1..Len(intersection_ids) :
          Rejected(intersection_ids[i]) =>
              /\ Get(current_phase', intersection_ids[i]) =
                     Get(current_phase, intersection_ids[i])
              /\ Get(phase_start', intersection_ids[i]) =
                     Get(phase_start, intersection_ids[i])
              /\ step' = step + 1
              /\ \A k \in (i + 1)..Len(intersection_ids) :
                    LET jid == intersection_ids[k]
                    IN  /\ \E h \in Haltings :
                              /\ Get(current_phase', jid) =
                                     Get(ControlledAlone(jid, h).cp, jid)
                              /\ Get(phase_start', jid) =
                                     Get(ControlledAlone(jid, h).ps, jid)
                        /\ DueForSwitch(jid) =>
                              /\ Get(phase_start', jid) = step
                              /\ Get(current_phase', jid) =
                                     (Get(current_phase, jid) + 1) % TlsPhases(jid) ]_vars

\* J9, unknown to TraCI, is listed before J1: in the step at max_green the
\* switch of J9 was rejected and J1 was switched
C30_Witness ==
    /\ initialized
    /\ intersection_ids = <<"J9", "J1">>
    /\ step = max_green + 1
    /\ Get(current_phase, "J9") = 0 /\ Get(phase_start, "J9") = 0
    /\ Get(current_phase, "J1") # 0 /\ Get(phase_start, "J1") = max_green

\* the ids of a trajectory output and the waypoint times of one of them
IdsOf(out) == {out[i].id : i \in 1..Len(out)}
TimesOf(out, vid) ==
    LET wps == out[CHOOSE i \in 1..Len(out) : out[i].id = vid].waypoints
    IN  [i \in 1..Len(wps) |-> wps[i][1]]

\* the two outputs name the same vehicles with the same waypoint times
SameTrajectories ==
    /\ IdsOf(deckgl) = IdsOf(pp_deckgl)
    /\ \A vid \in IdsOf(deckgl) : TimesOf(deckgl, vid) = TimesOf(pp_deckgl, vid)

\* each script has run to its end or to the exception that stopped it
MkEnded == mk_pc \in {"done", "ValueError"}
PpEnded == pp_pc \in {"done", "ValueError", "AttributeError", "ZeroDivisionError"}

\* at most MAX_VEHICLES vehicles of the trace reach MIN_WAYPOINTS waypoints
BelowCap == Len(Valid(full.vehicles)) <= MAX_VEHICLES

\* C27 as stated: on a trace with non-decreasing boundary times in which at
\* most MAX_VEHICLES vehicles reach 5 waypoints, once both scripts have ended
\* trips_deckgl.json of make_deckgl.py and that of step 4 of postprocess.py
\* hold the same vehicle ids, each with the same waypoint times.
C27_ProducersAgree ==
    (eof /\ MkEnded /\ PpEnded /\ monotone /\ BelowCap) => SameTrajectories

\* what the code does keep: the two agree whenever postprocess.py gets as far
\* as writing its trajectories
AgreeWhenBothWrite ==
    (mk_pc = "done" /\ pp_pc \in {"step5", "done"} /\ monotone /\ BelowCap) =>
        SameTrajectories

\* both have written a vehicle of five waypoints, make_deckgl.py after its
\* break and step 4 after its later break
BothWroteAfterBreak ==
    /\ mk_pc = "done" /\ pp_pc = "done" /\ monotone /\ BelowCap
    /\ pp4_pc = "break"
    /\ deckgl # << >> /\ SameTrajectories

\* make_deckgl.py has written a vehicle, postprocess.py stopped in step 2 on
\* its empty table and has written none
OnlyOneWrote ==
    /\ mk_pc = "done" /\ deckgl # << >>
    /\ pp_pc = "AttributeError" /\ pp_deckgl = << >>
    /\ monotone /\ BelowCap

\* make_deckgl.py has written its output and more than MAX_VEHICLES
\* trajectories had qualified
Capped == mk_pc = "done" /\ Len(Valid(vehicles)) > MAX_VEHICLES

\* the ids of a table in the order of its entries
KeySeq(d) == [i \in 1..Len(d) |-> d[i].k]

\* the number of waypoints collected for a vehicle
WpCount(vid) == Len(Get(vehicles, vid))

\* vehicle a ranks before vehicle b: more waypoints, or as many and earlier
\* in order
RanksBefore(order, a, b) ==
    \/ WpCount(a) > WpCount(b)
    \/ /\ WpCount(a) = WpCount(b)
       /\ \E i, j \in 1..Len(order) : i < j /\ order[i] = a /\ order[j] = b

\* the output is the first MAX_VEHICLES of the qualifying trajectories in
\* that ranking, in that ranking
RankedOutput(order) ==
    /\ Len(deckgl) = MAX_VEHICLES
    /\ IdsOf(deckgl) \subseteq Keys(Valid(vehicles))
    /\ \A i, j \in 1..Len(deckgl) :
          i < j => RanksBefore(order, deckgl[i].id, deckgl[j].id)
    /\ \A i \in 1..Len(deckgl) :
          \A b \in Keys(Valid(vehicles)) \ IdsOf(deckgl) :
              RanksBefore(order, deckgl[i].id, b)

\* C28 as stated: when more than MAX_VEHICLES trajectories qualify, the
\* output is the first MAX_VEHICLES of them ranked by waypoint count, equal
\* counts by the order in which the vehicle ids first appear in the trace.
C28_TiesByFirstAppearance == Capped => RankedOutput(seen)

\* C28 amended: equal counts are ranked by the order in which the vehicles
\* were first collected, that is by their first sample inside the window,
\* which fixes the vehicles kept and their order in the output.
C28_TiesByFirstCollected == Capped => RankedOutput(KeySeq(vehicles))

\* v3 and v2 are in the file before the window opens, inside it v1 comes
\* first; the three have five waypoints each and v1 and v2 are kept
C28_Witness ==
    /\ Capped
    /\ seen = <<V3, V2, V1>>
    /\ KeySeq(vehicles) = <<V1, V2, V3>>
    /\ \A vid \in {V1, V2, V3} : WpCount(vid) = MIN_WAYPOINTS
    /\ [i \in 1..Len(deckgl) |-> deckgl[i].id] = <<V1, V2>>

\* the total of the counts of the count table
TotalCount == SumSeq([i \in 1..Len(edge_speed_count) |-> edge_speed_count[i].v])

\* the two tables have the same keys, no count is under 1 and the counts add
\* up to the number of sample lines folded
TablesAgree ==
    /\ Keys(edge_speed_sum) = Keys(edge_speed_count)
    /\ Len(edge_speed_sum) = Len(edge_speed_count)
    /\ \A i \in 1..Len(edge_speed_count) : edge_speed_count[i].v >= 1
    /\ TotalCount = BagCardinality(folded)

\* C29: at every point of the aggregation scan the sum table and the count
\* table have the same keys, every count is at least 1 and the counts add up
\* to the number of sample lines folded so far; a line read while the
\* current timestep is not sampled, or before any boundary line, changes
\* neither table.
C29_TablesInStep ==
    /\ []TablesAgree
    /\ [][\A line \in Lines(trace_class) :
            (ReadLineOf(line) /\ (~sample_this \/ nsteps = 0)) =>
                UNCHANGED <<edge_speed_sum, edge_speed_count>>]_vars

\* a segment has an entry of two samples, and since then a vehicle
\* line of a timestep that is not sampled was read: step 4 kept its waypoint
\* at 25201, step 1 folded nothing
C29_Witness ==
    /\ pp_pc = "scan" /\ ~sample_this /\ current_time = 252010
    /\ TablesAgree
    /\ BagCardinality(folded) = 2
    /\ \E i \in 1..Len(edge_speed_count) : edge_speed_count[i].v = 2
    /\ \E i \in 1..Len(pp_vehicles) :
          \E j \in 1..Len(pp_vehicles[i].v) : pp_vehicles[i].v[j][1] = 25201

=============================================================================
